---------------------------- MODULE Spec2Model ----------------------------
(***************************************************************************)
(* Model of the TFP preferential-attachment graph generators (tfp-pa):     *)
(* the token types, the stream merger, the sequential TFP loop, the BA and *)
(* BBCR token generators and the batch-parallel BA engine.                 *)
(*                                                                         *)
(* One variable, prog, names the program (or the unit under test) a        *)
(* behaviour runs; every action is guarded by it, and the variables of the *)
(* other components stay at their idle values.                             *)
(***************************************************************************)
EXTENDS Integers, Sequences, FiniteSets, Bags, TLC

VARIABLES
  prog,         \* which program / unit this behaviour runs
  ndebug,       \* TRUE: built with NDEBUG (assert() compiles to nothing)
  tk_args,      \* the two argument triples given to the token constructors
  tk_kind,      \* "none" | "t64" | "tc" | "abort": what was constructed
  tk_a, tk_b,   \* the two constructed tokens (packed fields)
  tk_lt,        \* "none", or "true" / "false": the result of tk_a < tk_b
  mg_data,      \* StreamMerger test: the items of each input stream
  mg_pc,        \* "idle" | "data" (filling the inputs) | "run" (merger constructed)
  mg,           \* the StreamMerger object (all levels of the template recursion)
  mg_out,       \* the values the consumer read from the merger
  tfp_tokens,   \* the tokens of all input streams of the TFP loop (history)
  tfp_pc,       \* "idle" | "run" | "done" | "abort": the ProcessTokenSequence loop
  tfp_stream,   \* _stream: the merger the loop reads
  tfp_pq,       \* _prio_queue: its tokens in ascending order (top() is the head)
  tfp_idx,      \* _current_idx
  tfp_vertex,   \* _current_vertex
  tfp_empty,    \* _empty
  out,          \* the values the consumer of the loop read, in order
  cfg,          \* main: the parsed command line
  pc,           \* main: "idle" | "gen" | "process" | "fill" | "batch" | "done" | "abort"
  gen,          \* main: the variables of the token generation loop
  randomTokens, \* main: the tokens pushed to the sorter, in push order
  filter,       \* main: the flags -s and -m, once the write stage has read them
  edges_written,\* EdgeWriter::_edges_written
  file,         \* the vertices written to the output file, in order
  mppq,         \* main_pba: the bulk priority queue, its tokens in ascending order
  filled,       \* main_pba: the queue as the fill left it (history)
  ewpool,       \* main_pba: per writer, the edges handed to it, in order
                \* (EdgeWriterPool on its own: per writer, its path and edgesWritten())
  emitted,      \* main_pba: per edge index, how often an edge was emitted for it (history)
  batch,        \* main_pba: size, team, unanswered and completed of the last batch
  edges_processed, \* main_pba: edges_processed
  ef_in,        \* EdgeFilter test: the edges of the sorted input stream
                \* (EdgeSorter: the values of the vertex stream)
  ef_pc,        \* "idle" | "new" (input ready) | "run" (filter constructed) | "done"
                \* (EdgeSorter: "new" in the constructor, also "abort")
  ef,           \* the EdgeFilter object (with what is left of its input stream)
                \* (EdgeSorter: the stream, the edges pushed, the sorted edges)
  ef_out,       \* the edges the consumer read from the filter (or the sorter)
  ef_first,     \* <<>>, or <<es>> with the edges es read in the first application
                \* once a second filter is applied to them
  ew_pc,        \* EdgeWriter test: "idle" | "new" | "open" | "closed"
  ew,           \* the EdgeWriter object
  ew_file,      \* the elements of the output file once the writer is destroyed
  ew_call,      \* the last writeVertices or writeEdges: the stream before and after
  st_pc,        \* token stream test: "idle" | "new" | "run" | "done"
  st_args,      \* the constructor arguments of the stream
  st,           \* the stream object
  st_out,       \* the tokens the consumer read from the stream
  av_pc,        \* command line test: "idle" | "parse" | "config" | "run" | "error"
  av,           \* the program started and the values the parser stored
  av_created,   \* the objects main has constructed
  rs_pc,        \* ReservoirSampling test: "idle" | "new" | "run" | "abort"
  rs_size,      \* the reservoir_size handed to the constructor
  rs,           \* the ReservoirSampling object
  rs_pushed,    \* the items handed to push, in order (history)
  ep_open,      \* main_pba, call by call: between bulk_push_begin and bulk_push_end
  ep_inserted,  \* the tokens bulk-pushed in the open epoch, in push order
  pq_buffer,    \* pq_buffer: the tokens of the last bulk_pop
  ep_threads,   \* the threads of the parallel region that have not finished
  ep_calls      \* how often bulk_pop, bulk_push_begin, bulk_push_end were called (history)

tokenVars == <<tk_args, tk_kind, tk_a, tk_b, tk_lt>>
mergerVars == <<mg_data, mg_pc, mg, mg_out>>
tfpVars == <<tfp_tokens, tfp_pc, tfp_stream, tfp_pq, tfp_idx, tfp_vertex, tfp_empty, out>>

pbaVars == <<mppq, filled, ewpool, emitted, batch, edges_processed>>

mainVars == <<cfg, pc, gen, randomTokens, filter, edges_written, file, pbaVars>>

efVars == <<ef_in, ef_pc, ef, ef_out, ef_first>>

ewVars == <<ew_pc, ew, ew_file, ew_call>>

stVars == <<st_pc, st_args, st, st_out>>

argVars == <<av_pc, av, av_created>>

rsVars == <<rs_pc, rs_size, rs, rs_pushed>>

\* main_pba followed call by call on its queue.
epVars == <<ep_open, ep_inserted, pq_buffer, ep_threads, ep_calls>>

\* The variables of the unit tests that no program touches.
unitVars == <<efVars, ewVars, stVars, argVars, rsVars, epVars>>

vars == <<prog, ndebug, tokenVars, mergerVars, tfpVars, mainVars, unitVars>>

-----------------------------------------------------------------------------
(* The values the variables of a component hold while another one runs *)

NoToken == [none |-> TRUE]

TokenIdle ==
  /\ tk_args = <<>>
  /\ tk_kind = "none"
  /\ tk_a = NoToken
  /\ tk_b = NoToken
  /\ tk_lt = "none"

NoMerger == [none |-> TRUE]

MergerIdle ==
  /\ mg_data = <<>>
  /\ mg_pc = "idle"
  /\ mg = NoMerger
  /\ mg_out = <<>>

TfpIdle ==
  /\ tfp_tokens = {}
  /\ tfp_pc = "idle"
  /\ tfp_stream = NoMerger
  /\ tfp_pq = <<>>
  /\ tfp_idx = 0
  /\ tfp_vertex = 0
  /\ tfp_empty = FALSE
  /\ out = <<>>

NoMain == [none |-> TRUE]

NoFilter == [none |-> TRUE]

FilterIdle ==
  /\ ef_in = <<>>
  /\ ef_pc = "idle"
  /\ ef = NoFilter
  /\ ef_out = <<>>
  /\ ef_first = <<>>

NoWriter == [none |-> TRUE]
NoCall == [op |-> "none"]

WriterIdle ==
  /\ ew_pc = "idle"
  /\ ew = NoWriter
  /\ ew_file = <<>>
  /\ ew_call = NoCall

NoStream == [none |-> TRUE]

StreamIdle ==
  /\ st_pc = "idle"
  /\ st_args = NoStream
  /\ st = NoStream
  /\ st_out = <<>>

NoArgs == [none |-> TRUE]

ArgsIdle ==
  /\ av_pc = "idle"
  /\ av = NoArgs
  /\ av_created = {}

NoReservoir == [none |-> TRUE]

ReservoirIdle ==
  /\ rs_pc = "idle"
  /\ rs_size = 0
  /\ rs = NoReservoir
  /\ rs_pushed = <<>>

NoCalls == [pop |-> 0, begin |-> 0, end |-> 0]

EpochsIdle ==
  /\ ep_open = FALSE
  /\ ep_inserted = <<>>
  /\ pq_buffer = <<>>
  /\ ep_threads = {}
  /\ ep_calls = NoCalls

UnitIdle == FilterIdle /\ WriterIdle /\ StreamIdle /\ ArgsIdle /\ ReservoirIdle /\ EpochsIdle

PbaIdle ==
  /\ mppq = <<>>
  /\ filled = <<>>
  /\ ewpool = <<>>
  /\ emitted = <<>>
  /\ batch = NoMain
  /\ edges_processed = 0

MainIdle ==
  /\ PbaIdle
  /\ cfg = NoMain
  /\ pc = "idle"
  /\ gen = NoMain
  /\ randomTokens = <<>>
  /\ filter = NoMain
  /\ edges_written = 0
  /\ file = <<>>

-----------------------------------------------------------------------------
(* Bounds and scaled machine widths *)

\* TFP loop on its own: number of edge-list slots and of node ids.
MaxSlots == 4
MaxNodes == 2

\* TFP loop over arbitrary tokens: the most tokens of a stream, and the
\* largest id and value of a token.
MaxAnyTokens == 3
MaxAnyId == 2
MaxAnyValue == 2

\* Generators: requested edges (n * m) and edges per vertex.
MaxEdges == 3
MaxEdgesPerVertex == 2
\* main_ba: requested edges of a run started with the flag -d.
MaxEdgesFlagD == 1

\* BBCR: requested edges, and requested edges of a run with a positive degree
\* offset; the seed ring has the default number of vertices.
MaxEdgesBBCR == 2
MaxEdgesOffset == 1
SeedVertices == 2

\* main_pba: the option -p and the largest batch size requested from the queue.
MaxThreads == 2
MaxBatchSize == 4
\* min_batch_size (1l << 14 in the source), scaled down.
MinBatchSize == 2
\* main_pba: requested edges (n * m); the largest run fills the smallest
\* buffer that is handed to a team of workers.
MaxEdgesPBA == 2 * MinBatchSize
\* Edges of the seed path per edge of a vertex (1000 in the source), scaled down.
SeedFactor == 1

\* EdgeFilter test: length of the input stream, and the node ids of its edges.
MaxFilterEdges == 5

\* EdgeWriterPool: the most writers, the most prefixes of the configuration
\* file, the most edges handed to one writer, and the prefixes.
MaxWriters == 3
MaxPrefixes == 2
MaxPoolEdges == 2
PoolPrefixes == {"./", "/data/", "out"}

\* EdgeSorter: the most values of a vertex stream.
MaxSorterValues == 5
FilterNodes == {1, 2, 3}

\* EdgeWriter test: the largest expected_num_elems, the most vertices one run
\* hands to the writer, and the vertex ids written.
MaxExpected == 3
MaxWritten == 3
WriterVertices == {0, 1}

\* sizeof(out_type) with -DFILE_DATA_WIDTH=64
SizeofOutType == 8

\* Token stream test: the most vertices of a stream, the most edges per
\* vertex, and the largest first vertex id and first edge-list slot.
MaxStreamVertices == 3
MaxStreamEdgesPerVertex == 2
MaxStreamFirst == 2

\* Determinism test: the most edges requested of main_ba (n * m), the most
\* edges per vertex, and the most edges requested of main_bbcr in the runs
\* compared with their reference.
MaxDetEdges == 2
MaxDetEdgesPerVertex == 1
MaxDetEdgesBBCR == 1

\* Command line test: the largest no-vertices and edges-per-vert, the largest
\* no-edges and the largest value of seed_verts.
MaxArgVerts == 2
MaxArgEdges == 1
MaxArgSeedVerts == 3

\* The doubles on the command line, in units of 1e-10, and the 1e-9 the sum
\* alpha + beta + gamma is compared with.
ArgDoubles == {-1, 0, 4, 10}
SumEpsilon == 10

\* main_pba: the largest -p of the runs that look at the size of the team.
MaxThreadsTeam == 3

\* ReservoirSampling test: the largest reservoir_size, the most calls of
\* push, and the largest item pushed.
MaxReservoir == 3
MaxReservoirPushes == 4
MaxReservoirItem == 4

\* StreamMerger test: number of input streams and of items over all streams.
MaxStreams == 3
MaxItems == 3

\* Width of TokenCompressed::_data2 (uint32_t in the source), scaled down.
ValueLowBits == 2
\* Bits of the value kept in _data1 (15 in the source: 0x7FFF), scaled down.
ValueHighBits == 1

\* 47 in the source: mask = (1l << 47) - 1, and 47 = 32 + 15.
MaskBits == ValueLowBits + ValueHighBits
\* 16 in the source: the query flag sits one bit above the 15 high value bits.
QueryBitPos == ValueHighBits + 1
\* 17 in the source: index << 17.
IndexShift == ValueHighBits + 2
\* 64 in the source (uint64_t): 17 + 47.
WordBits == IndexShift + MaskBits

RECURSIVE Pow2(_)
Pow2(n) == IF n = 0 THEN 1 ELSE 2 * Pow2(n - 1)

\* Conversion to an unsigned integer of w bits.
Wrap(x, w) == x % Pow2(w)

Min(a, b) == IF a < b THEN a ELSE b
Max(a, b) == IF a < b THEN b ELSE a

\* Bitwise operations on naturals.
RECURSIVE BitOr(_, _)
BitOr(a, b) ==
  IF a = 0 THEN b
  ELSE IF b = 0 THEN a
  ELSE (IF (a % 2 = 1) \/ (b % 2 = 1) THEN 1 ELSE 0) + 2 * BitOr(a \div 2, b \div 2)

RECURSIVE BitAnd(_, _)
BitAnd(a, b) ==
  IF a = 0 \/ b = 0 THEN 0
  ELSE (IF (a % 2 = 1) /\ (b % 2 = 1) THEN 1 ELSE 0) + 2 * BitAnd(a \div 2, b \div 2)

Bool2Nat(b) == IF b THEN 1 ELSE 0

-----------------------------------------------------------------------------
(* Token<uint64_t> (Token64) *)

\* A token that forgets its kind (the low bit of _id).
Token64NoKind(query, id, value) ==
  [id |-> Wrap(2 * id, WordBits), value |-> value]

\* Token(bool query, id, value): _id((id << 1) + query), _value(value)
Token64(query, id, value) ==
  [id |-> Wrap(2 * id + Bool2Nat(query), WordBits), value |-> value]

\* id(): _id >> 1
TokenId(t) == t.id \div 2

\* query(): _id & 1
TokenQuery(t) == t.id % 2 = 1

\* value()
TokenValue(t) == t.value

\* operator<: _id < other._id || (_id == other._id && _value < other._value)
TokenLess(a, b) == a.id < b.id \/ (a.id = b.id /\ a.value < b.value)

-----------------------------------------------------------------------------
(* TokenCompressed (main_pba.cpp) *)

\* mask = (1l << 47) - 1
TCMask == Pow2(MaskBits) - 1

\* The two assertions of the constructor.
TCInRange(index, value) ==
  /\ BitAnd(index, TCMask) = index
  /\ BitAnd(value, TCMask) = value

\* _data1((index << 17) | (query << 16) | (value >> 32)), _data2(uint32_t(value))
TokenCompressed(query, index, value) ==
  [data1 |-> BitOr(BitOr(Wrap(index * Pow2(IndexShift), WordBits),
                         Bool2Nat(query) * Pow2(QueryBitPos)),
                   value \div Pow2(ValueLowBits)),
   data2 |-> Wrap(value, ValueLowBits)]

\* is_query(): _data1 & (1l << 16)
TCIsQuery(t) == BitAnd(t.data1, Pow2(QueryBitPos)) # 0

\* decompress(): index = _data1 >> 17, value = ((_data1 & 0x7FFF) << 32) | _data2
TCDecompress(t) ==
  [query |-> TCIsQuery(t),
   index |-> t.data1 \div Pow2(IndexShift),
   value |-> BitOr(BitAnd(t.data1, Pow2(ValueHighBits) - 1) * Pow2(ValueLowBits),
                   t.data2)]

\* operator<: std::tie(_data1, _data2) < std::tie(r._data1, r._data2)
TCLess(a, b) == a.data1 < b.data1 \/ (a.data1 = b.data1 /\ a.data2 < b.data2)

-----------------------------------------------------------------------------
(* StreamMerger<T, Compare, Stream, Streams...> (StreamMerger.hpp) *)

\* A merger over k input streams is the record
\*   in  : the k input streams, each the sequence of items it still holds
\*         (empty() is in[i] = <<>>, operator* is Head, operator++ is Tail),
\*   cur : _current of the levels 1..k-1 of the template recursion,
\*   emp : _empty of the levels 1..k-1,
\*   cmp : "int" (GenericComparator::Ascending) or "token" (Token64::ComparatorAsc).
\* Level i owns input i (_my_stream) and level i+1 (_others); level k is the
\* base case, a plain copy of the interface of input k.
MergerLevels(m) == Len(m.in)

\* A comparator of the opposite order.
MergerCompareDesc(m, a, b) == IF m.cmp = "token" THEN TokenLess(b, a) ELSE b < a

\* A comparator that is also true for equal elements.
MergerCompareTies(m, a, b) == IF m.cmp = "token" THEN ~TokenLess(b, a) ELSE a <= b

\* _compare(a, b)
MergerCompare(m, a, b) == IF m.cmp = "token" THEN TokenLess(a, b) ELSE a < b

\* empty() of level i
MergerEmptyAt(m, i) == IF i = MergerLevels(m) THEN m.in[i] = <<>> ELSE m.emp[i]

\* operator*() of level i
MergerPeekAt(m, i) == IF i = MergerLevels(m) THEN Head(m.in[i]) ELSE m.cur[i]

\* operator++() of level i
RECURSIVE MergerIncAt(_, _)
MergerIncAt(m, i) ==
  IF i = MergerLevels(m)
    THEN [m EXCEPT !.in[i] = Tail(@)]
  ELSE IF m.in[i] = <<>> /\ MergerEmptyAt(m, i + 1)
    THEN [m EXCEPT !.emp[i] = TRUE]
  ELSE IF m.in[i] = <<>>
    THEN MergerIncAt([m EXCEPT !.cur[i] = MergerPeekAt(m, i + 1)], i + 1)
  ELSE IF MergerEmptyAt(m, i + 1)
    THEN [m EXCEPT !.cur[i] = Head(m.in[i]), !.in[i] = Tail(@)]
  ELSE IF MergerCompare(m, Head(m.in[i]), MergerPeekAt(m, i + 1))
    THEN [m EXCEPT !.cur[i] = Head(m.in[i]), !.in[i] = Tail(@)]
  ELSE MergerIncAt([m EXCEPT !.cur[i] = MergerPeekAt(m, i + 1)], i + 1)

\* The constructors: _others is constructed before the body {++(*this);} runs,
\* so the levels run their first operator++ from the innermost outwards.
RECURSIVE MergerConstructFrom(_, _)
MergerConstructFrom(m, i) ==
  IF i = 0 THEN m ELSE MergerConstructFrom(MergerIncAt(m, i), i - 1)

StreamMerger(cmp, streams) ==
  MergerConstructFrom(
    [in  |-> streams,
     cur |-> [i \in 1..(Len(streams) - 1) |-> 0],
     emp |-> [i \in 1..(Len(streams) - 1) |-> FALSE],
     cmp |-> cmp],
    Len(streams) - 1)

MergerEmpty(m) == MergerEmptyAt(m, 1)
MergerPeek(m) == MergerPeekAt(m, 1)
MergerInc(m) == MergerIncAt(m, 1)

-----------------------------------------------------------------------------
(* Unit: StreamMerger over integer streams (TestStreamMerger) *)

RECURSIVE SumLen(_)
SumLen(ss) == IF ss = <<>> THEN 0 ELSE Len(Head(ss)) + SumLen(Tail(ss))

\* Largest item of the streams (0 when all are empty).
RECURSIVE MaxItem(_)
MaxItem(ss) ==
  IF ss = <<>> THEN 0
  ELSE LET h == Head(ss)
       IN  Max(IF h = <<>> THEN 0 ELSE h[Len(h)], MaxItem(Tail(ss)))

InitMerger ==
  /\ UnitIdle
  /\ prog = "merger"
  /\ ndebug = FALSE
  /\ TokenIdle
  /\ TfpIdle
  /\ MainIdle
  /\ \E k \in 1..MaxStreams : mg_data = [i \in 1..k |-> <<>>]
  /\ mg_pc = "data"
  /\ mg = NoMerger
  /\ mg_out = <<>>

\* _generateStreamData: the next item goes to the end of a stream chosen at
\* random, so every stream is ascending; here an item may also repeat the
\* largest item so far.
MergerPushItem ==
  /\ prog = "merger"
  /\ mg_pc = "data"
  /\ SumLen(mg_data) < MaxItems
  /\ \E s \in 1..Len(mg_data), v \in {MaxItem(mg_data), MaxItem(mg_data) + 1} :
       mg_data' = [mg_data EXCEPT ![s] = Append(@, v)]
  /\ UNCHANGED <<prog, ndebug, tokenVars, tfpVars, mainVars, mg_pc, mg, mg_out, unitVars>>

\* StreamMerger<unsigned int, Comparator, stream...> stream_merger(comp, streams...)
MergerNew ==
  /\ prog = "merger"
  /\ mg_pc = "data"
  /\ mg_pc' = "run"
  /\ mg' = StreamMerger("int", mg_data)
  /\ UNCHANGED <<prog, ndebug, tokenVars, tfpVars, mainVars, mg_data, mg_out, unitVars>>

\* The consumer: if (!stream.empty()) { read *stream; ++stream; }
MergerTake ==
  /\ prog = "merger"
  /\ mg_pc = "run"
  /\ ~MergerEmpty(mg)
  /\ mg_out' = Append(mg_out, MergerPeek(mg))
  /\ mg' = MergerInc(mg)
  /\ UNCHANGED <<prog, ndebug, tokenVars, tfpVars, mainVars, mg_data, mg_pc, unitVars>>

NextMerger == MergerPushItem \/ MergerNew \/ MergerTake

SpecMerger == InitMerger /\ [][NextMerger]_vars

-----------------------------------------------------------------------------
(* ProcessTokenSequence (ProcessTokenSequence.hpp) *)

\* A sequence of tokens kept ascending: stxxl::sorter with ComparatorAsc, and
\* the priority queue with ComparatorDesc, whose top() is the smallest token.
RECURSIVE SortedInsert(_, _)
SortedInsert(q, t) ==
  IF q = <<>> THEN <<t>>
  ELSE IF TokenLess(t, Head(q)) THEN <<t>> \o q
  ELSE <<Head(q)>> \o SortedInsert(Tail(q), t)

\* A queue whose top() is its largest token.
PQTopLast(q) == q[Len(q)]

\* _prio_queue.push(t), top() and pop()
PQPush(q, t) == SortedInsert(q, t)
PQTop(q) == Head(q)
PQPop(q) == Tail(q)

\* A loop that reads the queue only once the stream is empty.
TakeFromStreamFirst(stream, pq) == ~MergerEmpty(stream)

\* A loop that prefers the stream when neither token is less than the other.
TakeFromStreamTies(stream, pq) ==
  IF pq = <<>> THEN TRUE
  ELSE IF MergerEmpty(stream) THEN FALSE
  ELSE ~TokenLess(PQTop(pq), MergerPeek(stream))

\* The token operator++ takes next comes from the stream (TRUE) or from the
\* priority queue (FALSE); at least one of them is not empty.
TakeFromStream(stream, pq) ==
  IF pq = <<>> THEN TRUE
  ELSE IF MergerEmpty(stream) THEN FALSE
  ELSE TokenLess(MergerPeek(stream), PQTop(pq))

\* assert(_current_idx - 1 == token.id()) of _processToken
QueryAssertion(idx, token) == Wrap(idx - 1 + Pow2(WordBits), WordBits) = TokenId(token)

\* A query answered with the index of the queried slot instead of its vertex.
ProcessTokenQueueIndex(q, token, vertex) ==
  IF TokenQuery(token)
    THEN SortedInsert(q, Token64(FALSE, TokenValue(token), TokenId(token)))
    ELSE q

\* A query answered with a Link for the slot of the query itself.
ProcessTokenQueueSame(q, token, vertex) ==
  IF TokenQuery(token)
    THEN SortedInsert(q, Token64(FALSE, TokenId(token), vertex))
    ELSE q

\* _processToken(token) on the queue q: a query pushes
\* Token64(false, token.value(), _current_vertex).
ProcessTokenQueue(q, token, vertex) ==
  IF TokenQuery(token) THEN PQPush(q, Token64(FALSE, TokenValue(token), vertex)) ELSE q

\* One iteration of the loop of operator++ on `token`, taken from the stream
\* (the queue is q) or from the queue (q is the queue before pop()).
ProcessToken(token, q) ==
  IF TokenQuery(token) /\ ~ndebug /\ ~QueryAssertion(tfp_idx, token)
    THEN /\ tfp_pc' = "abort"
         /\ UNCHANGED <<tfp_idx, tfp_vertex, out>>
    ELSE /\ tfp_pc' = "run"
         /\ IF TokenQuery(token)
              THEN UNCHANGED <<tfp_idx, tfp_vertex, out>>
              ELSE /\ tfp_vertex' = TokenValue(token)
                   /\ tfp_idx' = Wrap(tfp_idx + 1, WordBits)
                   \* operator++ returns; the consumer reads operator*()
                   /\ out' = Append(out, TokenValue(token))

TfpProgs == {"tfp", "ba", "bbcr"}

\* repeat = _processToken(*_stream); ++_stream;
TfpFromStream ==
  /\ prog \in TfpProgs
  /\ tfp_pc = "run"
  /\ ~MergerEmpty(tfp_stream)
  /\ TakeFromStream(tfp_stream, tfp_pq)
  /\ ProcessToken(MergerPeek(tfp_stream), tfp_pq)
  /\ tfp_pq' = ProcessTokenQueue(tfp_pq, MergerPeek(tfp_stream), tfp_vertex)
  /\ tfp_stream' = MergerInc(tfp_stream)
  /\ UNCHANGED <<tfp_tokens, tfp_empty>>

\* repeat = _processToken(_prio_queue.top()); _prio_queue.pop();
TfpFromQueue ==
  /\ prog \in TfpProgs
  /\ tfp_pc = "run"
  /\ tfp_pq # <<>>
  /\ ~TakeFromStream(tfp_stream, tfp_pq)
  /\ ProcessToken(PQTop(tfp_pq), tfp_pq)
  /\ tfp_pq' = PQPop(ProcessTokenQueue(tfp_pq, PQTop(tfp_pq), tfp_vertex))
  /\ UNCHANGED <<tfp_tokens, tfp_stream, tfp_empty>>

\* if (_prio_queue.empty() && _stream.empty()) { _empty = true; repeat = false; }
TfpFinish ==
  /\ prog \in TfpProgs
  /\ tfp_pc = "run"
  /\ tfp_pq = <<>>
  /\ MergerEmpty(tfp_stream)
  /\ tfp_empty' = TRUE
  /\ tfp_pc' = "done"
  /\ UNCHANGED <<tfp_tokens, tfp_stream, tfp_pq, tfp_idx, tfp_vertex, out>>

\* ProcessTokenSequence(stream, pq): _current_idx(0), _empty(false); the first
\* operator++ of the constructor is the first run of the loop.
TfpConstruct(streams) ==
  /\ tfp_tokens' = UNION {{ss[i] : i \in 1..Len(ss)} : ss \in {streams[j] : j \in 1..Len(streams)}}
  /\ tfp_pc' = "run"
  /\ tfp_stream' = StreamMerger("token", streams)
  /\ tfp_pq' = <<>>
  /\ tfp_idx' = 0
  /\ tfp_empty' = FALSE
  /\ UNCHANGED <<tfp_vertex, out>>

-----------------------------------------------------------------------------
(* Unit: the TFP loop over one sorted stream of tokens *)

RECURSIVE SortTokens(_)
SortTokens(ts) ==
  IF ts = <<>> THEN <<>> ELSE SortedInsert(SortTokens(Tail(ts)), Head(ts))

\* The tokens that may target slot k: a Link at k, or a Query of an earlier
\* slot whose answer goes to k.
SlotTokens(k) ==
  {Token64(FALSE, k, n) : n \in 0..(MaxNodes - 1)} \cup {Token64(TRUE, i, k) : i \in 0..(k - 1)}

\* All token sequences with exactly one token per slot 0..L-1.
RECURSIVE SlotStreams(_)
SlotStreams(L) ==
  IF L = 0 THEN {<<>>}
  ELSE {Append(s, t) : s \in SlotStreams(L - 1), t \in SlotTokens(L - 1)}

InitTfp ==
  /\ UnitIdle
  /\ prog = "tfp"
  /\ ndebug \in BOOLEAN
  /\ TokenIdle
  /\ MergerIdle
  /\ MainIdle
  /\ \E L \in 1..MaxSlots : \E ts \in SlotStreams(L) :
       /\ tfp_tokens = {ts[i] : i \in 1..L}
       /\ tfp_stream = StreamMerger("token", <<SortTokens(ts)>>)
  /\ tfp_pc = "run"
  /\ tfp_pq = <<>>
  /\ tfp_idx = 0
  /\ tfp_vertex = 0
  /\ tfp_empty = FALSE
  /\ out = <<>>

TfpFrame == UNCHANGED <<prog, ndebug, tokenVars, mergerVars, mainVars, unitVars>>

NextTfpLoop ==
  \/ TfpFromStream /\ TfpFrame
  \/ TfpFromQueue /\ TfpFrame
  \/ TfpFinish /\ TfpFrame

SpecTfp == InitTfp /\ [][NextTfpLoop]_vars

\* Any token, and the streams of any tokens in ascending order (as a sorter
\* hands them out).
AnyTokens ==
  {Token64(q, id, value) : q \in BOOLEAN, id \in 0..MaxAnyId, value \in 0..MaxAnyValue}

RECURSIVE AnyStreams(_)
AnyStreams(L) ==
  IF L = 0 THEN {<<>>}
  ELSE {SortedInsert(ts, t) : ts \in AnyStreams(L - 1), t \in AnyTokens}

\* The loop over a stream that need not be well-formed.
InitTfpAny ==
  /\ UnitIdle
  /\ prog = "tfp"
  /\ ndebug \in BOOLEAN
  /\ TokenIdle
  /\ MergerIdle
  /\ MainIdle
  /\ \E L \in 1..MaxAnyTokens : \E ts \in AnyStreams(L) :
       /\ tfp_tokens = {ts[i] : i \in 1..L}
       /\ tfp_stream = StreamMerger("token", <<ts>>)
  /\ tfp_pc = "run"
  /\ tfp_pq = <<>>
  /\ tfp_idx = 0
  /\ tfp_vertex = 0
  /\ tfp_empty = FALSE
  /\ out = <<>>

SpecTfpAny == InitTfpAny /\ [][NextTfpLoop]_vars

-----------------------------------------------------------------------------
(* InitialCircle and RegularVertexTokenStream *)

\* A circle whose last token does not point back to the first vertex.
ICIncOpen(s) ==
  [s EXCEPT
     !.current_token = Token64(FALSE, s.current_token_id,
                               s.first_vertex_id + (s.current_token_id + 1) \div 2),
     !.current_token_id = @ + 1]

\* InitialCircle::operator++
ICInc(s) ==
  [s EXCEPT
     !.current_token =
        IF s.current_token_id >= Wrap(s.number_of_tokens - 1 + Pow2(WordBits), WordBits)
          THEN Token64(FALSE, s.current_token_id, s.first_vertex_id)
          ELSE Token64(FALSE, s.current_token_id,
                       s.first_vertex_id + (s.current_token_id + 1) \div 2),
     !.current_token_id = @ + 1]

\* InitialCircle(number_of_vertices, first_id)
InitialCircle(number_of_vertices, first_id) ==
  ICInc([number_of_tokens |-> 2 * number_of_vertices,
         first_vertex_id  |-> first_id,
         current_token_id |-> 0,
         current_token    |-> NoToken])

ICEmpty(s) == s.current_token_id > s.number_of_tokens
ICPeek(s) == s.current_token
ICMaxVertexId(s) == s.first_vertex_id + s.number_of_tokens \div 2 - 1
ICNumberOfEdges(s) == s.number_of_tokens \div 2

\* The tokens a consumer reads from the stream until it is empty.
RECURSIVE ICItems(_)
ICItems(s) == IF ICEmpty(s) THEN <<>> ELSE <<ICPeek(s)>> \o ICItems(ICInc(s))

\* A stream that tests for its end after the step to the next vertex.
RVIncLate(s) ==
  LET wrapped == s.current_edge + 1 >= s.edges_per_vertex
  IN  [s EXCEPT
         !.empty = s.empty \/ ((IF wrapped THEN s.current_vertex + 1 ELSE s.current_vertex)
                                  >= s.vertex_end),
         !.current_token = Token64(FALSE, s.edge_list_idx, s.current_vertex),
         !.edge_list_idx = @ + 2,
         !.current_edge = IF wrapped THEN 0 ELSE @ + 1,
         !.current_vertex = IF wrapped THEN @ + 1 ELSE @]

\* RegularVertexTokenStream::operator++
RVInc(s) ==
  LET wrapped == s.current_edge + 1 >= s.edges_per_vertex
  IN  [s EXCEPT
         !.empty = s.empty \/ (s.current_vertex >= s.vertex_end),
         !.current_token = Token64(FALSE, s.edge_list_idx, s.current_vertex),
         !.edge_list_idx = @ + 2,
         !.current_edge = IF wrapped THEN 0 ELSE @ + 1,
         !.current_vertex = IF wrapped THEN @ + 1 ELSE @]

\* RegularVertexTokenStream(first_vertex, first_edge_list_idx, number_of_vertices,
\* edges_per_vertex)
RegularVertexTokenStream(first_vertex, first_edge_list_idx, number_of_vertices, edges_per_vertex) ==
  RVInc([vertex_end       |-> first_vertex + number_of_vertices,
         edges_per_vertex |-> edges_per_vertex,
         current_vertex   |-> first_vertex,
         current_edge     |-> 0,
         edge_list_idx    |-> first_edge_list_idx,
         current_token    |-> NoToken,
         empty            |-> FALSE])

RVEmpty(s) == s.empty
RVPeek(s) == s.current_token

RECURSIVE RVItems(_)
RVItems(s) == IF RVEmpty(s) THEN <<>> ELSE <<RVPeek(s)>> \o RVItems(RVInc(s))

-----------------------------------------------------------------------------
(* EdgeSorter, EdgeFilter and EdgeWriter *)

\* A writer that counts every vertex as an edge.
WriteVerticesCountAll(vs) == Len(vs)

\* The loop of the constructor of EdgeSorter over the values of the vertex
\* stream: a value without a partner is paired with operator*() of the empty
\* stream, which still is that value (the assert is checked by the caller).
RECURSIVE EdgePairs(_)
EdgePairs(vs) ==
  IF vs = <<>> THEN <<>>
  ELSE IF Len(vs) = 1 THEN <<<<vs[1], vs[1]>>>>
  ELSE <<<<vs[1], vs[2]>>>> \o EdgePairs(Tail(Tail(vs)))

\* A comparison of the first vertices only.
EdgeLessFirst(a, b) == a[1] < b[1]

\* EdgeSorter::Compare: a < b on std::pair
EdgeLess(a, b) == a[1] < b[1] \/ (a[1] = b[1] /\ a[2] < b[2])

RECURSIVE EdgeInsert(_, _)
EdgeInsert(es, e) ==
  IF es = <<>> THEN <<e>>
  ELSE IF EdgeLess(e, Head(es)) THEN <<e>> \o es
  ELSE <<Head(es)>> \o EdgeInsert(Tail(es), e)

\* _sorter.sort()
RECURSIVE SortEdges(_)
SortEdges(es) == IF es = <<>> THEN <<>> ELSE EdgeInsert(SortEdges(Tail(es)), Head(es))

\* EdgeSorter(stream): the sorted edges
EdgeSorter(vs) == SortEdges(EdgePairs(vs))

\* A filter that knows self-loops only.
FetchIssueLoopsOnly(f, candidate, initial_fetch) ==
  f.self_loops /\ candidate[1] = candidate[2]

\* A filter that knows repeated edges only.
FetchIssueMultiOnly(f, candidate, initial_fetch) ==
  f.multi_edges /\ ~initial_fetch /\ f.last_edge = candidate

\* The body of the loop of EdgeFilter::_fetch
FetchIssue(f, candidate, initial_fetch) ==
  \/ f.self_loops /\ candidate[1] = candidate[2]
  \/ f.multi_edges /\ ~initial_fetch /\ f.last_edge = candidate

\* A fetch that advances the stream once more behind the edge it found.
RECURSIVE FetchLoopDropNext(_, _)
FetchLoopDropNext(f, initial_fetch) ==
  IF f.stream = <<>> THEN [f EXCEPT !.empty = TRUE]
  ELSE LET candidate == Head(f.stream)
           rest == [f EXCEPT !.stream = Tail(@)]
       IN  IF \/ f.self_loops /\ candidate[1] = candidate[2]
              \/ f.multi_edges /\ ~initial_fetch /\ f.last_edge = candidate
             THEN FetchLoopDropNext(rest, initial_fetch)
             ELSE [rest EXCEPT !.current_edge = candidate, !.empty = FALSE,
                               !.stream = IF @ = <<>> THEN @ ELSE Tail(@)]

\* while(issue && !_stream.empty()) { ... ++_stream; } _empty = issue;
RECURSIVE FetchLoop(_, _)
FetchLoop(f, initial_fetch) ==
  IF f.stream = <<>> THEN [f EXCEPT !.empty = TRUE]
  ELSE LET candidate == Head(f.stream)
           rest == [f EXCEPT !.stream = Tail(@)]
       IN  IF FetchIssue(f, candidate, initial_fetch)
             THEN FetchLoop(rest, initial_fetch)
             ELSE [rest EXCEPT !.current_edge = candidate, !.empty = FALSE]

\* EdgeFilter::_fetch(initial_fetch)
EdgeFilterFetch(f, initial_fetch) ==
  FetchLoop([f EXCEPT !.last_edge = f.current_edge], initial_fetch)

\* EdgeFilter(stream, self_loops, multi_edges); _current_edge starts
\* uninitialised and is not read before it is assigned.
EdgeFilter(stream, self_loops, multi_edges) ==
  EdgeFilterFetch([stream |-> stream, empty |-> FALSE,
                   self_loops |-> self_loops, multi_edges |-> multi_edges,
                   current_edge |-> <<>>, last_edge |-> <<>>], TRUE)

RECURSIVE EdgeFilterItems(_)
EdgeFilterItems(f) ==
  IF f.empty THEN <<>> ELSE <<f.current_edge>> \o EdgeFilterItems(EdgeFilterFetch(f, FALSE))

RECURSIVE Flatten(_)
Flatten(es) == IF es = <<>> THEN <<>> ELSE Head(es) \o Flatten(Tail(es))

\* writeVertices: _edges_written += vertices / 2
WriteVerticesCount(vs) == Len(vs) \div 2

\* The write stage of main_ba and main_bbcr on the values the TFP loop emits:
\* the edges go through EdgeSorter and EdgeFilter to writeEdges when a filter
\* flag is set, the vertices to writeVertices when none is.
FilteredEdges(vs, self_loops, multi_edges) ==
  EdgeFilterItems(EdgeFilter(EdgeSorter(vs), self_loops, multi_edges))

WriteStage(self_loops, multi_edges) ==
  /\ filter' = [self_loops |-> self_loops, multi_edges |-> multi_edges]
  /\ IF self_loops \/ multi_edges
       THEN IF ~ndebug /\ Len(out) % 2 = 1
              THEN /\ pc' = "abort"
                   /\ UNCHANGED <<edges_written, file>>
              ELSE /\ pc' = "done"
                   /\ file' = Flatten(FilteredEdges(out, self_loops, multi_edges))
                   /\ edges_written' = Len(FilteredEdges(out, self_loops, multi_edges))
       ELSE /\ pc' = "done"
            /\ file' = out
            /\ edges_written' = WriteVerticesCount(out)

-----------------------------------------------------------------------------
(* main_ba.cpp *)

\* RandomInteger<8>::randint(supremum): a number of [0; supremum[
RandInt(supremum) == 0..(supremum - 1)

BASeed(m) == InitialCircle(2 * m, 0)

BARegular(n, m) ==
  RegularVertexTokenStream(ICMaxVertexId(BASeed(m)) + 1, 2 * ICNumberOfEdges(BASeed(m)), n, m)

\* The state on entry to the generation loop; the flag -d can only set
\* edge_dependencies, which is initialised to true. The build checks its
\* assertions: a run in which none fails is a run of the NDEBUG build as well.
InitBA ==
  /\ UnitIdle
  /\ prog = "ba"
  /\ ndebug = FALSE
  /\ TokenIdle
  /\ MergerIdle
  /\ TfpIdle
  /\ PbaIdle
  /\ \E n \in 1..MaxEdges, m \in 1..MaxEdgesPerVertex, d \in BOOLEAN :
       /\ n * m <= MaxEdges
       /\ d => n * m <= MaxEdgesFlagD
       /\ cfg = [number_of_vertices |-> n, edges_per_vertex |-> m,
                 flag_d |-> d, edge_dependencies |-> (TRUE \/ d)]
       /\ gen = [vertex |-> 0, edge |-> 0,
                 weight |-> ICNumberOfEdges(BASeed(m)) * 2,
                 this_weight |-> ICNumberOfEdges(BASeed(m)) * 2,
                 idx |-> ICNumberOfEdges(BASeed(m)) * 2 + 1]
  /\ pc = "gen"
  /\ randomTokens = <<>>
  /\ filter = NoMain
  /\ edges_written = 0
  /\ file = <<>>

\* One iteration of the inner loop, with the step of the outer loop when it
\* was the last edge of the vertex.
BAGenerate ==
  /\ prog = "ba"
  /\ pc = "gen"
  /\ gen.vertex < cfg.number_of_vertices
  /\ \E r \in RandInt(gen.this_weight) :
       randomTokens' = Append(randomTokens, Token64(TRUE, r, gen.idx))
  /\ gen' = IF gen.edge + 1 < cfg.edges_per_vertex
              THEN [gen EXCEPT !.this_weight = @ + 2 * Bool2Nat(cfg.edge_dependencies),
                               !.idx = @ + 2,
                               !.edge = @ + 1]
              ELSE [gen EXCEPT !.this_weight = gen.weight + 2 * cfg.edges_per_vertex,
                               !.weight = @ + 2 * cfg.edges_per_vertex,
                               !.idx = @ + 2,
                               !.edge = 0,
                               !.vertex = @ + 1]
  /\ UNCHANGED <<prog, ndebug, tokenVars, mergerVars, tfpVars, cfg, pc, filter, edges_written, file, pbaVars, unitVars>>

\* randomTokens.sort(); merger(comparator, regularTokens, randomTokens,
\* seedTokens); process(merger, prio_queue)
BAProcess ==
  /\ prog = "ba"
  /\ pc = "gen"
  /\ gen.vertex >= cfg.number_of_vertices
  /\ pc' = "process"
  /\ TfpConstruct(<<RVItems(BARegular(cfg.number_of_vertices, cfg.edges_per_vertex)),
                    SortTokens(randomTokens),
                    ICItems(BASeed(cfg.edges_per_vertex))>>)
  /\ UNCHANGED <<prog, ndebug, tokenVars, mergerVars, cfg, gen, randomTokens, filter, edges_written, file, pbaVars, unitVars>>

\* EdgeWriter edge_writer(...); writeEdges(filteredEdges) or writeVertices(process),
\* by the flags -s (filter_self_loops) and -m (filter_multi_edges)
BAWrite ==
  /\ prog = "ba"
  /\ pc = "process"
  /\ tfp_pc = "done"
  /\ \E filter_self_loops, filter_multi_edges \in BOOLEAN :
       WriteStage(filter_self_loops, filter_multi_edges)
  /\ UNCHANGED <<prog, ndebug, tokenVars, mergerVars, tfpVars, cfg, gen, randomTokens, pbaVars, unitVars>>

NextBA ==
  \/ BAGenerate
  \/ BAProcess
  \/ NextTfpLoop
  \/ BAWrite

SpecBA == InitBA /\ [][NextBA]_vars

-----------------------------------------------------------------------------
(* ModelBBCR (models/ModelBBCR.hpp) and main_bbcr.cpp *)

\* A selection that rounds up to the next position of the wanted parity.
PaSlotUp(distr, rand_token) ==
  IF distr = "DistrOut"
    THEN rand_token + (rand_token % 2)
    ELSE rand_token - (rand_token % 2) + 1

\* rand_token &= ~1llu (DistrOut: an even position) or rand_token |= 1llu
\* (DistrIn: an odd position)
PaSlot(distr, rand_token) ==
  IF distr = "DistrOut"
    THEN rand_token - (rand_token % 2)
    ELSE rand_token - (rand_token % 2) + 1

\* A generator whose queries name the new slot as the queried one.
GenerateRandomTokenSwapped(distr, offset_positive, vertex_id, token_id) ==
  (IF offset_positive
     THEN {Token64(FALSE, token_id, v) : v \in RandInt(vertex_id + 1)}
     ELSE {})
  \cup {Token64(TRUE, token_id, PaSlot(distr, r)) : r \in RandInt(token_id - (token_id % 2))}

\* _generate_random_token(distr): the tokens it can return with _vertex_id and
\* _token_id as given; the uniform selection can be drawn only with a positive
\* degree offset of the distribution.
GenerateRandomToken(distr, offset_positive, vertex_id, token_id) ==
  (IF offset_positive
     THEN {Token64(FALSE, token_id, v) : v \in RandInt(vertex_id + 1)}
     ELSE {})
  \cup {Token64(TRUE, PaSlot(distr, r), token_id) : r \in RandInt(token_id - (token_id % 2))}

BBCRSeed(seed_vertices) == InitialCircle(seed_vertices, 0)

\* The state on entry to _populate: alpha, beta and gamma are positive as by
\* default, d-in and d-out are zero or positive.
InitBBCR ==
  /\ UnitIdle
  /\ prog = "bbcr"
  /\ ndebug = FALSE
  /\ TokenIdle
  /\ MergerIdle
  /\ TfpIdle
  /\ PbaIdle
  /\ \E e \in 1..MaxEdgesBBCR, din, dout \in BOOLEAN :
       /\ (din \/ dout) => e <= MaxEdgesOffset
       /\ cfg = [number_of_edges |-> e, number_of_seed_vertices |-> SeedVertices,
                 alpha_positive |-> TRUE, beta_positive |-> TRUE, gamma_positive |-> TRUE,
                 d_in_positive |-> din, d_out_positive |-> dout]
       /\ gen = [vertex_id |-> ICMaxVertexId(BBCRSeed(SeedVertices)) + 1,
                 token_id |-> 2 * ICNumberOfEdges(BBCRSeed(SeedVertices)),
                 max_token_id |-> 2 * ICNumberOfEdges(BBCRSeed(SeedVertices)) + 2 * e,
                 mode |-> "none"]
  /\ pc = "gen"
  /\ randomTokens = <<>>
  /\ filter = NoMain
  /\ edges_written = 0
  /\ file = <<>>

\* The three branches of the loop of _populate.
BBCRAlpha ==
  /\ cfg.alpha_positive
  /\ \E t \in GenerateRandomToken("DistrIn", cfg.d_in_positive, gen.vertex_id, gen.token_id + 1) :
       randomTokens' = randomTokens \o <<Token64(FALSE, gen.token_id, gen.vertex_id), t>>
  /\ gen' = [gen EXCEPT !.token_id = @ + 2, !.vertex_id = @ + 1, !.mode = "alpha"]

BBCRBeta ==
  /\ cfg.beta_positive
  /\ \E t \in GenerateRandomToken("DistrOut", cfg.d_out_positive, gen.vertex_id, gen.token_id),
        u \in GenerateRandomToken("DistrIn", cfg.d_in_positive, gen.vertex_id, gen.token_id + 1) :
       randomTokens' = randomTokens \o <<t, u>>
  /\ gen' = [gen EXCEPT !.token_id = @ + 2, !.mode = "beta"]

BBCRGamma ==
  /\ cfg.gamma_positive
  /\ \E t \in GenerateRandomToken("DistrOut", cfg.d_out_positive, gen.vertex_id, gen.token_id) :
       randomTokens' = randomTokens \o <<t, Token64(FALSE, gen.token_id + 1, gen.vertex_id)>>
  /\ gen' = [gen EXCEPT !.token_id = @ + 2, !.vertex_id = @ + 1, !.mode = "gamma"]

\* One iteration of the loop of _populate.
BBCRPopulate ==
  /\ prog = "bbcr"
  /\ pc = "gen"
  /\ gen.token_id < gen.max_token_id
  /\ IF ~ndebug /\ gen.token_id % 2 = 1
       THEN /\ pc' = "abort"
            /\ UNCHANGED <<gen, randomTokens>>
       ELSE /\ pc' = pc
            /\ (BBCRAlpha \/ BBCRBeta \/ BBCRGamma)
  /\ UNCHANGED <<prog, ndebug, tokenVars, mergerVars, tfpVars, cfg, filter, edges_written, file, pbaVars, unitVars>>

\* _sorter.sort(); merger(compare, model.sorter(), seedTokens);
\* process(merger, prio_queue)
BBCRProcess ==
  /\ prog = "bbcr"
  /\ pc = "gen"
  /\ gen.token_id >= gen.max_token_id
  /\ pc' = "process"
  /\ TfpConstruct(<<SortTokens(randomTokens), ICItems(BBCRSeed(cfg.number_of_seed_vertices))>>)
  /\ UNCHANGED <<prog, ndebug, tokenVars, mergerVars, cfg, gen, randomTokens, filter, edges_written, file, pbaVars, unitVars>>

BBCRWrite ==
  /\ prog = "bbcr"
  /\ pc = "process"
  /\ tfp_pc = "done"
  /\ \E filter_self_loops, filter_multi_edges \in BOOLEAN :
       WriteStage(filter_self_loops, filter_multi_edges)
  /\ UNCHANGED <<prog, ndebug, tokenVars, mergerVars, tfpVars, cfg, gen, randomTokens, pbaVars, unitVars>>

NextBBCR ==
  \/ BBCRPopulate
  \/ BBCRProcess
  \/ NextTfpLoop
  \/ BBCRWrite

SpecBBCR == InitBBCR /\ [][NextBBCR]_vars

-----------------------------------------------------------------------------
(* main_pba.cpp: the batch-parallel BA engine *)

\* RAGPath::operator()(idx): idx / 2 + (idx & 1)
RAGPathNode(idx) == (idx \div 2) + (idx % 2)

\* RAGPath seed_graph(1000 * edges_per_vertex): numberOfEdges() and
\* maxVertexId() both return the number of edges.
SeedGraphEdges(m) == SeedFactor * m
SeedGraphMaxVertexId(m) == SeedFactor * m

\* The bulk priority queue holds its tokens in ascending order: bulk_pop takes
\* them from the head, and the tokens pushed between bulk_push_begin and
\* bulk_push_end are in the queue when the next bulk_pop runs.
RECURSIVE TCInsert(_, _)
TCInsert(q, t) ==
  IF q = <<>> THEN <<t>>
  ELSE IF TCLess(t, Head(q)) THEN <<t>> \o q
  ELSE <<Head(q)>> \o TCInsert(Tail(q), t)

RECURSIVE BulkPush(_, _)
BulkPush(q, ts) == IF ts = <<>> THEN q ELSE BulkPush(TCInsert(q, Head(ts)), Tail(ts))

\* A fill whose queries name the drawn slot instead of its edge.
FillTokenSlot(r, idx, seed_weight, m) ==
  IF r < seed_weight
    THEN [query |-> FALSE, index |-> idx, value |-> RAGPathNode(r)]
  ELSE IF r % 2 = 1
    THEN [query |-> FALSE, index |-> idx,
          value |-> ((r - seed_weight) \div 2) \div m + SeedGraphMaxVertexId(m) + 1]
  ELSE [query |-> TRUE, index |-> r - seed_weight, value |-> idx]

\* A fill that asks for the slots of the seed graph with a Query.
FillTokenQuerySeed(r, idx, seed_weight, m) ==
  IF r >= seed_weight /\ r % 2 = 1
    THEN [query |-> FALSE, index |-> idx,
          value |-> ((r - seed_weight) \div 2) \div m + SeedGraphMaxVertexId(m) + 1]
  ELSE [query |-> TRUE, index |-> r, value |-> idx]

\* The token the fill loop pushes for the draw r of edge idx.
FillToken(r, idx, seed_weight, m) ==
  IF r < seed_weight
    THEN [query |-> FALSE, index |-> idx, value |-> RAGPathNode(r)]
  ELSE IF r % 2 = 1
    THEN [query |-> FALSE, index |-> idx,
          value |-> ((r - seed_weight) \div 2) \div m + SeedGraphMaxVertexId(m) + 1]
  ELSE [query |-> TRUE, index |-> (r - seed_weight) \div 2, value |-> idx]

\* The state on entry to the fill loop; -d sets edge_dependencies, -p the
\* number of threads. The build checks its assertions.
InitPBA ==
  /\ UnitIdle
  /\ prog = "pba"
  /\ ndebug = FALSE
  /\ TokenIdle
  /\ MergerIdle
  /\ TfpIdle
  /\ \E n \in 1..MaxEdgesPBA, m \in 1..MaxEdgesPerVertex, d \in BOOLEAN, p \in 1..MaxThreads :
       /\ n * m <= MaxEdgesPBA
       /\ cfg = [number_of_vertices |-> n, edges_per_vertex |-> m,
                 edge_dependencies |-> d, number_of_threads |-> p]
       /\ gen = [vertex |-> 0, edge |-> 0, weight |-> 2 * SeedGraphEdges(m), idx |-> 0]
       /\ ewpool = [i \in 1..p |-> <<>>]
       /\ emitted = [e \in 0..(n * m - 1) |-> 0]
  /\ pc = "fill"
  /\ randomTokens = <<>>
  /\ filter = NoMain
  /\ edges_written = 0
  /\ file = <<>>
  /\ mppq = <<>>
  /\ filled = <<>>
  /\ batch = NoMain
  /\ edges_processed = 0

\* One iteration of the inner loop of the fill (the vertices are shared among
\* the threads; the queue ends up the same in whatever order they push).
PBAFill ==
  /\ prog = "pba"
  /\ pc = "fill"
  /\ gen.vertex < cfg.number_of_vertices
  /\ \E r \in RandInt(gen.weight) :
       \E t \in {FillToken(r, gen.idx, 2 * SeedGraphEdges(cfg.edges_per_vertex),
                           cfg.edges_per_vertex)} :
         \E asserted \in {ndebug \/ TCInRange(t.index, t.value)} :
           /\ pc' = (IF asserted THEN pc ELSE "abort")
           /\ mppq' = (IF asserted THEN TCInsert(mppq, TokenCompressed(t.query, t.index, t.value))
                       ELSE mppq)
  /\ gen' = IF gen.edge + 1 < cfg.edges_per_vertex
              THEN [gen EXCEPT !.weight = @ + 2 * Bool2Nat(cfg.edge_dependencies),
                               !.idx = @ + 1,
                               !.edge = @ + 1]
              ELSE [gen EXCEPT !.weight = 2 * SeedGraphEdges(cfg.edges_per_vertex)
                                          + 2 * cfg.edges_per_vertex * (gen.vertex + 1),
                               !.idx = @ + 1,
                               !.edge = 0,
                               !.vertex = @ + 1]
  /\ UNCHANGED <<prog, ndebug, tokenVars, mergerVars, tfpVars, cfg, randomTokens, filter,
                 edges_written, file, ewpool, filled, emitted, batch, edges_processed, unitVars>>

\* The seed edges handed to writer 0.
RECURSIVE SeedEdges(_, _)
SeedEdges(i, weight) ==
  IF i >= weight THEN <<>>
  ELSE <<<<RAGPathNode(i), RAGPathNode(i + 1)>>>> \o SeedEdges(i + 2, weight)

\* mppq.bulk_push_end(); the writers; the seed graph goes to ewpool[0];
\* edges_processed = seed_graph.numberOfEdges()
PBASeed ==
  /\ prog = "pba"
  /\ pc = "fill"
  /\ gen.vertex >= cfg.number_of_vertices
  /\ pc' = "batch"
  /\ filled' = mppq
  /\ ewpool' = [ewpool EXCEPT ![1] = SeedEdges(0, 2 * SeedGraphEdges(cfg.edges_per_vertex))]
  /\ edges_processed' = SeedGraphEdges(cfg.edges_per_vertex)
  /\ UNCHANGED <<prog, ndebug, tokenVars, mergerVars, tfpVars, cfg, gen, randomTokens, filter,
                 edges_written, file, mppq, emitted, batch, unitVars>>

\* What one worker does in a batch: the tokens it bulk-pushes, the edges it
\* hands to its writer (with their edge indices), its counters, and whether
\* an assertion fails.
NoWork == [push |-> <<>>, edges |-> <<>>, idxs |-> <<>>, unanswered |-> 0, completed |-> 0,
           failed |-> FALSE]

\* One piece of work followed by the rest of the strip's work.
ThenWork(a, b) ==
  [push |-> a.push \o b.push, edges |-> a.edges \o b.edges, idxs |-> a.idxs \o b.idxs,
   unanswered |-> a.unanswered + b.unanswered, completed |-> a.completed + b.completed,
   failed |-> a.failed \/ b.failed]

\* A scan that stops at the first token behind the Link.
ScanEndAtOnce(buf, it, end, index) == it

\* for(++it; it != end; ++it) { if (t.index != qt.index) break; ... }: the
\* position at which the scan behind a Link stops.
RECURSIVE ScanEnd(_, _, _, _)
ScanEnd(buf, it, end, index) ==
  IF it = end \/ TCDecompress(buf[it]).index # index THEN it
  ELSE ScanEnd(buf, it + 1, end, index)

\* Answers that define the slot of the Query instead of the slot it names.
AnswerTokensBack(buf, from, to, t) ==
  [k \in 1..(to - from) |->
     TokenCompressed(FALSE, TCDecompress(buf[from + k - 1]).index,
                     TCDecompress(buf[from + k - 1]).value)]

\* Answers that carry the Link's index instead of its value.
AnswerTokensIndex(buf, from, to, t) ==
  [k \in 1..(to - from) |->
     TokenCompressed(FALSE, TCDecompress(buf[from + k - 1]).value, t.index)]

\* The answers pushed for the tokens buf[from .. to-1] behind the Link t.
AnswerTokens(buf, from, to, t) ==
  [k \in 1..(to - from) |->
     TokenCompressed(FALSE, TCDecompress(buf[from + k - 1]).value, t.value)]

\* assert(qt.value > t.index) and the range assertions of the constructor,
\* for the tokens buf[from .. to-1] behind the Link t.
AnswersAsserted(buf, from, to, t) ==
  \A k \in from..(to - 1) :
    /\ TCDecompress(buf[k]).value > t.index
    /\ TCInRange(TCDecompress(buf[k]).value, t.value)

\* A worker without the last-token rule.
RepushLinkNever(buf, it, end) == FALSE

\* A last-token rule that does not look at the size of the buffer.
RepushLinkAlways(buf, it, end) == it = end

\* The worker's last-token rule: the Link is pushed again instead of emitted.
RepushLink(buf, it, end) == it = end /\ Len(buf) > 1

\* The work for the Link t at the head of a sequence whose scan stopped at stop.
LinkWork(buf, it, stop, end, t, m, chk) ==
  [push |-> AnswerTokens(buf, it + 1, stop, t)
            \o (IF RepushLink(buf, stop, end)
                  THEN <<TokenCompressed(FALSE, t.index, t.value)>> ELSE <<>>),
   edges |-> IF RepushLink(buf, stop, end) THEN <<>>
             ELSE <<<<t.value, t.index \div m + SeedGraphMaxVertexId(m) + 1>>>>,
   idxs |-> IF RepushLink(buf, stop, end) THEN <<>> ELSE <<t.index>>,
   unanswered |-> 0,
   completed |-> IF RepushLink(buf, stop, end) THEN 0 ELSE 1,
   failed |-> chk /\ ~(AnswersAsserted(buf, it + 1, stop, t) /\ TCInRange(t.index, t.value))]

\* The process lambda on the strip [it, end) of the buffer.
RECURSIVE Process(_, _, _, _, _)
Process(buf, it, end, m, chk) ==
  IF it = end THEN NoWork
  ELSE IF TCIsQuery(buf[it])
    THEN ThenWork([NoWork EXCEPT !.push = <<buf[it]>>, !.unanswered = 1],
                  Process(buf, it + 1, end, m, chk))
  ELSE LET t == TCDecompress(buf[it])
           stop == ScanEnd(buf, it + 1, end, t.index)
       IN  ThenWork(LinkWork(buf, it, stop, end, t, m, chk), Process(buf, stop, end, m, chk))

\* for (; it != pq_buffer.end() && it->is_query(); ++it);
RECURSIVE SkipQueries(_, _)
SkipQueries(buf, it) ==
  IF it > Len(buf) \/ ~TCIsQuery(buf[it]) THEN it ELSE SkipQueries(buf, it + 1)

\* A strip that begins at its nominal chunk, queries included.
StripBeginNoSkip(buf, nthreads, tid) == (Len(buf) \div nthreads) * tid + 1

\* The strip of thread tid in a team of nthreads (positions from 1; the end
\* is one past the last token of the strip).
StripBegin(buf, nthreads, tid) ==
  IF tid = 0 THEN 1 ELSE SkipQueries(buf, (Len(buf) \div nthreads) * tid + 1)

\* A strip that ends at its nominal chunk.
StripEndNoSkip(buf, nthreads, tid) ==
  IF tid + 1 = nthreads THEN Len(buf) + 1 ELSE (Len(buf) \div nthreads) * (tid + 1) + 1

StripEnd(buf, nthreads, tid) ==
  IF tid + 1 = nthreads THEN Len(buf) + 1
  ELSE SkipQueries(buf, (Len(buf) \div nthreads) * (tid + 1) + 1)

\* A request for all configured threads, whatever the size of the buffer.
RequestedThreadsAll(size, number_of_threads) == number_of_threads

\* The thread count requested for a buffer.
RequestedThreads(size, number_of_threads) ==
  Max(1, Min(size \div MinBatchSize, number_of_threads))

\* What the workers of a team do with a buffer: worker tid at position tid + 1.
TeamWork(buf, nthreads, m, chk) ==
  [i \in 1..nthreads |->
     Process(buf, StripBegin(buf, nthreads, i - 1), StripEnd(buf, nthreads, i - 1), m, chk)]

RECURSIVE SumWork(_, _, _)
SumWork(work, field, i) ==
  IF i = 0 THEN 0
  ELSE (IF field = "completed" THEN work[i].completed ELSE work[i].unanswered)
       + SumWork(work, field, i - 1)

RECURSIVE PushWork(_, _, _)
PushWork(q, work, i) ==
  IF i = 0 THEN q ELSE PushWork(BulkPush(q, work[i].push), work, i - 1)

RECURSIVE CountEmitted(_, _)
CountEmitted(em, idxs) ==
  IF idxs = <<>> THEN em
  ELSE CountEmitted([em EXCEPT ![Head(idxs)] = @ + 1], Tail(idxs))

RECURSIVE EmittedByTeam(_, _, _)
EmittedByTeam(em, work, i) ==
  IF i = 0 THEN em ELSE EmittedByTeam(CountEmitted(em, work[i].idxs), work, i - 1)

\* No assertion of the batch fails (or the build has none): those of the
\* workers, and assert(chunk_size >= min_batch_size || omp_get_num_threads() == 1)
\* of the team branch.
BatchAsserted(work, size, nthreads) ==
  \/ ndebug
  \/ /\ \A i \in 1..nthreads : ~work[i].failed
     /\ size >= 2 * MinBatchSize => (size \div nthreads >= MinBatchSize \/ nthreads = 1)

\* One iteration of the batch loop: bulk_pop of up to bs tokens, the single
\* worker or the team, bulk_push_end. bs is at least min_batch_size. The size
\* of the team is what the OpenMP runtime grants of the requested threads; the
\* strips are computed from the granted size.
PBABatch ==
  /\ prog = "pba"
  /\ pc = "batch"
  /\ mppq # <<>>
  /\ \E bs \in MinBatchSize..MaxBatchSize :
       \E size \in {Min(bs, Len(mppq))} :
         \E nthreads \in 1..(IF size < 2 * MinBatchSize THEN 1
                             ELSE RequestedThreads(size, cfg.number_of_threads)) :
           \E work \in {TeamWork(SubSeq(mppq, 1, size), nthreads, cfg.edges_per_vertex, ~ndebug)} :
             \E asserted \in {BatchAsserted(work, size, nthreads)} :
               /\ pc' = (IF asserted THEN pc ELSE "abort")
               /\ mppq' = (IF asserted
                             THEN PushWork(SubSeq(mppq, size + 1, Len(mppq)), work, nthreads)
                           ELSE mppq)
               /\ ewpool' = (IF asserted
                               THEN [i \in DOMAIN ewpool |->
                                       IF i <= nthreads THEN ewpool[i] \o work[i].edges
                                       ELSE ewpool[i]]
                             ELSE ewpool)
               /\ emitted' = (IF asserted THEN EmittedByTeam(emitted, work, nthreads) ELSE emitted)
               /\ batch' = (IF asserted
                              THEN [size |-> size, nthreads |-> nthreads,
                                    unanswered |-> SumWork(work, "unanswered", nthreads),
                                    completed |-> SumWork(work, "completed", nthreads)]
                            ELSE batch)
               /\ edges_processed' = (IF asserted
                                        THEN edges_processed + SumWork(work, "completed", nthreads)
                                      ELSE edges_processed)
  /\ UNCHANGED <<prog, ndebug, tokenVars, mergerVars, tfpVars, cfg, gen, randomTokens, filter,
                 edges_written, file, filled, unitVars>>

\* while(!mppq.empty()) ends.
PBAFinish ==
  /\ prog = "pba"
  /\ pc = "batch"
  /\ mppq = <<>>
  /\ pc' = "done"
  /\ UNCHANGED <<prog, ndebug, tokenVars, mergerVars, tfpVars, cfg, gen, randomTokens, filter,
                 edges_written, file, mppq, filled, ewpool, emitted, batch, edges_processed, unitVars>>

NextPBA == PBAFill \/ PBASeed \/ PBABatch \/ PBAFinish

SpecPBA == InitPBA /\ [][NextPBA]_vars

\* The runs of main_pba with the largest -p: the runtime may grant a team of
\* any size up to it, so their batches are the batches of all runs.
InitPBATeam == InitPBA /\ cfg.number_of_threads = MaxThreads

SpecPBATeam == InitPBATeam /\ [][NextPBA]_vars

\* The runs of main_pba without -d with -p up to MaxThreadsTeam: more threads
\* than a buffer has chunks of min_batch_size tokens.
InitPBAThreads ==
  /\ UnitIdle
  /\ prog = "pba"
  /\ ndebug = FALSE
  /\ TokenIdle
  /\ MergerIdle
  /\ TfpIdle
  /\ \E n \in 1..MaxEdgesPBA, m \in 1..MaxEdgesPerVertex, p \in 1..MaxThreadsTeam :
       /\ n * m <= MaxEdgesPBA
       /\ cfg = [number_of_vertices |-> n, edges_per_vertex |-> m,
                 edge_dependencies |-> FALSE, number_of_threads |-> p]
       /\ gen = [vertex |-> 0, edge |-> 0, weight |-> 2 * SeedGraphEdges(m), idx |-> 0]
       /\ ewpool = [i \in 1..p |-> <<>>]
       /\ emitted = [e \in 0..(n * m - 1) |-> 0]
  /\ pc = "fill"
  /\ randomTokens = <<>>
  /\ filter = NoMain
  /\ edges_written = 0
  /\ file = <<>>
  /\ mppq = <<>>
  /\ filled = <<>>
  /\ batch = NoMain
  /\ edges_processed = 0

SpecPBAThreads == InitPBAThreads /\ [][NextPBA]_vars

\* The condition of the batch loop, while(!mppq.empty()): an iteration can
\* be taken exactly when it holds.
BatchEnabled == prog = "pba" /\ pc = "batch" /\ mppq # <<>>

\* The loops of main run to their end: a step of the program that stays
\* enabled is eventually taken. For the batch loop this is WF_vars(PBABatch)
\* written out with the loop condition as the enabling condition.
FairSpecPBA ==
  /\ SpecPBA
  /\ WF_vars(PBAFill)
  /\ WF_vars(PBASeed)
  /\ WF_vars(PBAFinish)
  /\ ([]<>(~BatchEnabled) \/ []<><<PBABatch>>_vars)

-----------------------------------------------------------------------------
(* main_pba.cpp, call by call on the bulk priority queue *)

\* The loop variables of the fill after the push for one edge.
FillAdvance(g, c) ==
  IF g.edge + 1 < c.edges_per_vertex
    THEN [g EXCEPT !.weight = @ + 2 * Bool2Nat(c.edge_dependencies),
                   !.idx = @ + 1,
                   !.edge = @ + 1]
    ELSE [g EXCEPT !.weight = 2 * SeedGraphEdges(c.edges_per_vertex)
                              + 2 * c.edges_per_vertex * (g.vertex + 1),
                   !.idx = @ + 1,
                   !.edge = 0,
                   !.vertex = @ + 1]

\* A parallel region that main leaves without waiting for its threads.
TeamDoneEarly(threads) == TRUE

\* The end of the parallel region (or the return of the single call of
\* process): every thread of the team has finished.
TeamDone(threads) == threads = {}

\* The state before the fill; -p is the largest number of threads.
InitEpochs ==
  /\ prog = "pba_calls"
  /\ ndebug = FALSE
  /\ TokenIdle
  /\ MergerIdle
  /\ TfpIdle
  /\ FilterIdle
  /\ WriterIdle
  /\ StreamIdle
  /\ ArgsIdle
  /\ ReservoirIdle
  /\ \E n \in 1..MaxEdgesPBA, m \in 1..MaxEdgesPerVertex, d \in BOOLEAN :
       /\ n * m <= MaxEdgesPBA
       /\ cfg = [number_of_vertices |-> n, edges_per_vertex |-> m,
                 edge_dependencies |-> d, number_of_threads |-> MaxThreads]
       /\ gen = [vertex |-> 0, edge |-> 0, weight |-> 2 * SeedGraphEdges(m), idx |-> 0]
       /\ ewpool = [i \in 1..MaxThreads |-> <<>>]
       /\ emitted = [e \in 0..(n * m - 1) |-> 0]
  /\ pc = "start"
  /\ randomTokens = <<>>
  /\ filter = NoMain
  /\ edges_written = 0
  /\ file = <<>>
  /\ mppq = <<>>
  /\ filled = <<>>
  /\ batch = NoMain
  /\ edges_processed = 0
  /\ ep_open = FALSE
  /\ ep_inserted = <<>>
  /\ pq_buffer = <<>>
  /\ ep_threads = {}
  /\ ep_calls = NoCalls

EpochsFrame ==
  UNCHANGED <<prog, ndebug, tokenVars, mergerVars, tfpVars, cfg, randomTokens, filter,
              edges_written, file, efVars, ewVars, stVars, argVars, rsVars>>

\* mppq.bulk_push_begin(0) in front of the fill
EpFillBegin ==
  /\ prog = "pba_calls"
  /\ pc = "start"
  /\ ep_open' = TRUE
  /\ ep_calls' = [ep_calls EXCEPT !.begin = @ + 1]
  /\ pc' = "fill"
  /\ EpochsFrame
  /\ UNCHANGED <<gen, mppq, filled, ewpool, emitted, batch, edges_processed,
                 ep_inserted, pq_buffer, ep_threads>>

\* One iteration of the inner loop of the fill: mppq.bulk_push(TokenCompressed{...})
EpFill ==
  /\ prog = "pba_calls"
  /\ pc = "fill"
  /\ gen.vertex < cfg.number_of_vertices
  /\ \E r \in RandInt(gen.weight) :
       \E t \in {FillToken(r, gen.idx, 2 * SeedGraphEdges(cfg.edges_per_vertex),
                           cfg.edges_per_vertex)} :
         \E asserted \in {ndebug \/ TCInRange(t.index, t.value)} :
           /\ pc' = (IF asserted THEN pc ELSE "abort")
           /\ ep_inserted' = (IF asserted
                                THEN Append(ep_inserted, TokenCompressed(t.query, t.index, t.value))
                              ELSE ep_inserted)
  /\ gen' = FillAdvance(gen, cfg)
  /\ EpochsFrame
  /\ UNCHANGED <<mppq, filled, ewpool, emitted, batch, edges_processed,
                 ep_open, pq_buffer, ep_threads, ep_calls>>

\* mppq.bulk_push_end() behind the fill; the writers and the seed graph
EpFillEnd ==
  /\ prog = "pba_calls"
  /\ pc = "fill"
  /\ gen.vertex >= cfg.number_of_vertices
  /\ mppq' = BulkPush(mppq, ep_inserted)
  /\ filled' = BulkPush(mppq, ep_inserted)
  /\ ep_inserted' = <<>>
  /\ ep_open' = FALSE
  /\ ep_calls' = [ep_calls EXCEPT !.end = @ + 1]
  /\ ewpool' = [ewpool EXCEPT ![1] = SeedEdges(0, 2 * SeedGraphEdges(cfg.edges_per_vertex))]
  /\ edges_processed' = SeedGraphEdges(cfg.edges_per_vertex)
  /\ pc' = "loop"
  /\ EpochsFrame
  /\ UNCHANGED <<gen, emitted, batch, pq_buffer, ep_threads>>

\* while(!mppq.empty()) { ...; mppq.bulk_pop(pq_buffer, bs);
EpPop ==
  /\ prog = "pba_calls"
  /\ pc = "loop"
  /\ mppq # <<>>
  /\ \E bs \in MinBatchSize..MaxBatchSize :
       \E size \in {Min(bs, Len(mppq))} :
         /\ pq_buffer' = SubSeq(mppq, 1, size)
         /\ mppq' = SubSeq(mppq, size + 1, Len(mppq))
  /\ ep_calls' = [ep_calls EXCEPT !.pop = @ + 1]
  /\ pc' = "popped"
  /\ EpochsFrame
  /\ UNCHANGED <<gen, filled, ewpool, emitted, batch, edges_processed,
                 ep_open, ep_inserted, ep_threads>>

\* mppq.bulk_push_begin(0) of either branch; the single call of process, or
\* the parallel region with the team the runtime grants.
EpBegin ==
  /\ prog = "pba_calls"
  /\ pc = "popped"
  /\ ep_open' = TRUE
  /\ ep_calls' = [ep_calls EXCEPT !.begin = @ + 1]
  /\ \E nthreads \in 1..(IF Len(pq_buffer) < 2 * MinBatchSize THEN 1
                         ELSE RequestedThreads(Len(pq_buffer), cfg.number_of_threads)) :
       /\ batch' = [size |-> Len(pq_buffer), nthreads |-> nthreads,
                    unanswered |-> 0, completed |-> 0]
       /\ ep_threads' = 0..(nthreads - 1)
  /\ pc' = "work"
  /\ EpochsFrame
  /\ UNCHANGED <<gen, mppq, filled, ewpool, emitted, edges_processed, ep_inserted, pq_buffer>>

\* One thread of the team: its strip and process(pq_buffer, it, end, ...).
EpWorker ==
  /\ prog = "pba_calls"
  /\ pc # "abort"
  /\ \E tid \in ep_threads :
       \E work \in {Process(pq_buffer, StripBegin(pq_buffer, batch.nthreads, tid),
                            StripEnd(pq_buffer, batch.nthreads, tid),
                            cfg.edges_per_vertex, ~ndebug)} :
         \E asserted \in {\/ ndebug
                          \/ /\ ~work.failed
                             /\ batch.size >= 2 * MinBatchSize =>
                                  (batch.size \div batch.nthreads >= MinBatchSize
                                     \/ batch.nthreads = 1)} :
           /\ pc' = (IF asserted THEN pc ELSE "abort")
           /\ ep_inserted' = (IF asserted THEN ep_inserted \o work.push ELSE ep_inserted)
           /\ ewpool' = (IF asserted THEN [ewpool EXCEPT ![tid + 1] = @ \o work.edges]
                         ELSE ewpool)
           /\ emitted' = (IF asserted THEN CountEmitted(emitted, work.idxs) ELSE emitted)
           /\ batch' = (IF asserted
                          THEN [batch EXCEPT !.unanswered = @ + work.unanswered,
                                             !.completed = @ + work.completed]
                        ELSE batch)
           /\ ep_threads' = ep_threads \ {tid}
  /\ EpochsFrame
  /\ UNCHANGED <<gen, mppq, filled, edges_processed, ep_open, pq_buffer, ep_calls>>

\* mppq.bulk_push_end(); edges_processed += completed;
EpEnd ==
  /\ prog = "pba_calls"
  /\ pc = "work"
  /\ TeamDone(ep_threads)
  /\ mppq' = BulkPush(mppq, ep_inserted)
  /\ ep_inserted' = <<>>
  /\ ep_open' = FALSE
  /\ ep_calls' = [ep_calls EXCEPT !.end = @ + 1]
  /\ edges_processed' = edges_processed + batch.completed
  /\ pc' = "loop"
  /\ EpochsFrame
  /\ UNCHANGED <<gen, filled, ewpool, emitted, batch, pq_buffer, ep_threads>>

\* while(!mppq.empty()) ends.
EpFinish ==
  /\ prog = "pba_calls"
  /\ pc = "loop"
  /\ mppq = <<>>
  /\ pc' = "done"
  /\ EpochsFrame
  /\ UNCHANGED <<gen, mppq, filled, ewpool, emitted, batch, edges_processed, epVars>>

NextEpochs ==
  \/ EpFillBegin
  \/ EpFill
  \/ EpFillEnd
  \/ EpPop
  \/ EpBegin
  \/ EpWorker
  \/ EpEnd
  \/ EpFinish

SpecEpochs == InitEpochs /\ [][NextEpochs]_vars

-----------------------------------------------------------------------------
(* The sequential programs together *)

NextGen ==
  \/ BAGenerate
  \/ BAProcess
  \/ BAWrite
  \/ BBCRPopulate
  \/ BBCRProcess
  \/ BBCRWrite
  \/ NextTfpLoop

\* main_ba and main_bbcr
SpecGen == (InitBA \/ InitBBCR) /\ [][NextGen]_vars

\* The runs of main_ba and main_bbcr with few edges.
InitDet ==
  \/ /\ InitBA
     /\ cfg.number_of_vertices * cfg.edges_per_vertex <= MaxDetEdges
     /\ cfg.edges_per_vertex <= MaxDetEdgesPerVertex
  \/ InitBBCR /\ cfg.number_of_edges <= MaxDetEdgesBBCR

SpecDet == InitDet /\ [][NextGen]_vars

\* Every user of ProcessTokenSequence
SpecSeq == (InitTfp \/ InitBA \/ InitBBCR) /\ [][NextGen]_vars

\* All three generators.
NextAll == NextGen \/ NextPBA

SpecAll == (InitBA \/ InitBBCR \/ InitPBA) /\ [][NextAll]_vars

-----------------------------------------------------------------------------
(* Unit: the token constructors and comparators *)

\* Argument values at and around the limits of the packed ranges.
TokenIdxInputs ==
  {0, 1, Pow2(MaskBits) - 1, Pow2(MaskBits), Pow2(WordBits - 1)}

TokenValInputs ==
  {0, Pow2(ValueLowBits), Pow2(MaskBits) - 1, Pow2(MaskBits)}

TokenArgs == [query : BOOLEAN, index : TokenIdxInputs, value : TokenValInputs]

InitToken ==
  /\ UnitIdle
  /\ prog = "token"
  /\ ndebug \in BOOLEAN
  /\ MergerIdle
  /\ TfpIdle
  /\ MainIdle
  /\ tk_args \in TokenArgs \X TokenArgs
  /\ tk_kind = "none"
  /\ tk_a = NoToken
  /\ tk_b = NoToken
  /\ tk_lt = "none"

\* Token64 a(q, i, v), b(q', i', v'): the constructor checks nothing.
NewToken64 ==
  /\ prog = "token"
  /\ tk_kind = "none"
  /\ tk_kind' = "t64"
  /\ tk_a' = Token64(tk_args[1].query, tk_args[1].index, tk_args[1].value)
  /\ tk_b' = Token64(tk_args[2].query, tk_args[2].index, tk_args[2].value)
  /\ UNCHANGED <<prog, ndebug, tk_args, tk_lt, mergerVars, tfpVars, mainVars, unitVars>>

\* TokenCompressed a{q, i, v}, b{q', i', v'}: the two assert()s of the
\* constructor abort the program unless it was built with NDEBUG.
NewTokenCompressed ==
  /\ prog = "token"
  /\ tk_kind = "none"
  /\ IF ~ndebug /\ \E i \in 1..2 : ~TCInRange(tk_args[i].index, tk_args[i].value)
       THEN /\ tk_kind' = "abort"
            /\ UNCHANGED <<tk_a, tk_b>>
       ELSE /\ tk_kind' = "tc"
            /\ tk_a' = TokenCompressed(tk_args[1].query, tk_args[1].index, tk_args[1].value)
            /\ tk_b' = TokenCompressed(tk_args[2].query, tk_args[2].index, tk_args[2].value)
  /\ UNCHANGED <<prog, ndebug, tk_args, tk_lt, mergerVars, tfpVars, mainVars, unitVars>>

\* a < b with the operator< of the constructed type.
CompareTokens ==
  /\ prog = "token"
  /\ tk_kind \in {"t64", "tc"}
  /\ tk_lt = "none"
  /\ tk_lt' = IF (IF tk_kind = "t64" THEN TokenLess(tk_a, tk_b) ELSE TCLess(tk_a, tk_b))
                THEN "true" ELSE "false"
  /\ UNCHANGED <<prog, ndebug, tk_args, tk_kind, tk_a, tk_b, mergerVars, tfpVars, mainVars, unitVars>>

NextToken == NewToken64 \/ NewTokenCompressed \/ CompareTokens

SpecToken == InitToken /\ [][NextToken]_vars

-----------------------------------------------------------------------------
(* Unit: EdgeFilter over a sorted stream of edges *)

FilterEdges == FilterNodes \X FilterNodes

\* The ascending sequences of n edges.
RECURSIVE SortedEdgeSeqs(_)
SortedEdgeSeqs(n) ==
  IF n = 0 THEN {<<>>}
  ELSE UNION {{Append(es, e) : e \in {y \in FilterEdges :
                                        es = <<>> \/ ~EdgeLess(y, es[Len(es)])}} :
              es \in SortedEdgeSeqs(n - 1)}

InitFilter ==
  /\ prog = "filter"
  /\ ndebug = FALSE
  /\ TokenIdle
  /\ MergerIdle
  /\ TfpIdle
  /\ MainIdle
  /\ WriterIdle
  /\ StreamIdle
  /\ ArgsIdle
  /\ ReservoirIdle
  /\ EpochsIdle
  /\ ef_in \in UNION {SortedEdgeSeqs(n) : n \in 0..MaxFilterEdges}
  /\ ef_pc = "new"
  /\ ef = NoFilter
  /\ ef_out = <<>>
  /\ ef_first = <<>>

FilterFrame ==
  UNCHANGED <<prog, ndebug, tokenVars, mergerVars, tfpVars, mainVars, ewVars, stVars, argVars, rsVars, epVars>>

\* EdgeFilter filter(stream, self_loops, multi_edges)
FilterNew ==
  /\ prog = "filter"
  /\ ef_pc = "new"
  /\ \E self_loops, multi_edges \in BOOLEAN :
       ef' = EdgeFilter(ef_in, self_loops, multi_edges)
  /\ ef_pc' = "run"
  /\ FilterFrame
  /\ UNCHANGED <<ef_in, ef_out, ef_first>>

\* for(; !filter.empty(); ++filter) { read *filter }
FilterRead ==
  /\ prog = "filter"
  /\ ef_pc = "run"
  /\ ~ef.empty
  /\ ef_out' = Append(ef_out, ef.current_edge)
  /\ ef' = EdgeFilterFetch(ef, FALSE)
  /\ FilterFrame
  /\ UNCHANGED <<ef_in, ef_pc, ef_first>>

FilterEnd ==
  /\ prog = "filter"
  /\ ef_pc = "run"
  /\ ef.empty
  /\ ef_pc' = "done"
  /\ FilterFrame
  /\ UNCHANGED <<ef_in, ef, ef_out, ef_first>>

\* A second filter with the same flags over the edges read from the first.
FilterAgain ==
  /\ prog = "filter"
  /\ ef_pc = "done"
  /\ ef_first = <<>>
  /\ ef_first' = <<ef_out>>
  /\ ef' = EdgeFilter(ef_out, ef.self_loops, ef.multi_edges)
  /\ ef_out' = <<>>
  /\ ef_pc' = "run"
  /\ FilterFrame
  /\ UNCHANGED ef_in

NextFilter == FilterNew \/ FilterRead \/ FilterEnd \/ FilterAgain

SpecFilter == InitFilter /\ [][NextFilter]_vars

-----------------------------------------------------------------------------
(* Unit: EdgeSorter over a stream of vertices, statement by statement *)

\* All streams of exactly n values.
RECURSIVE ValueStreams(_)
ValueStreams(n) ==
  IF n = 0 THEN {<<>>}
  ELSE {Append(vs, v) : vs \in ValueStreams(n - 1), v \in FilterNodes}

\* On entry to the constructor: the sorter is empty, the stream untouched.
InitSorter ==
  /\ prog = "sorter"
  /\ ndebug \in BOOLEAN
  /\ TokenIdle
  /\ MergerIdle
  /\ TfpIdle
  /\ MainIdle
  /\ WriterIdle
  /\ StreamIdle
  /\ ArgsIdle
  /\ ReservoirIdle
  /\ EpochsIdle
  /\ ef_in \in UNION {ValueStreams(n) : n \in 0..MaxSorterValues}
  /\ ef_pc = "new"
  /\ ef = [stream |-> ef_in, pushed |-> <<>>, sorted |-> <<>>]
  /\ ef_out = <<>>
  /\ ef_first = <<>>

\* One iteration of for(; !stream.empty(); ++stream): edge.first = *stream;
\* ++stream; assert(!stream.empty()); edge.second = *stream; _sorter.push(edge).
\* Without the assert, the second vertex of a last single value is read from
\* an empty stream, and the loop is taken to end there.
SorterPush ==
  /\ prog = "sorter"
  /\ ef_pc = "new"
  /\ ef.stream # <<>>
  /\ IF Len(ef.stream) >= 2
       THEN /\ ef' = [ef EXCEPT !.pushed = Append(@, <<ef.stream[1], ef.stream[2]>>),
                                !.stream = Tail(Tail(@))]
            /\ ef_pc' = ef_pc
       ELSE IF ~ndebug
         THEN /\ ef' = [ef EXCEPT !.stream = <<>>]
              /\ ef_pc' = "abort"
         ELSE /\ \E second \in FilterNodes :
                   ef' = [ef EXCEPT !.pushed = Append(@, <<ef.stream[1], second>>),
                                    !.stream = <<>>]
              /\ ef_pc' = ef_pc
  /\ FilterFrame
  /\ UNCHANGED <<ef_in, ef_out, ef_first>>

\* The loop has ended: _sorter.sort(); the constructor returns.
SorterSort ==
  /\ prog = "sorter"
  /\ ef_pc = "new"
  /\ ef.stream = <<>>
  /\ ef' = [ef EXCEPT !.sorted = SortEdges(ef.pushed)]
  /\ ef_pc' = "run"
  /\ FilterFrame
  /\ UNCHANGED <<ef_in, ef_out, ef_first>>

\* The consumer: for(; !sorter.empty(); ++sorter) { read *sorter }
SorterRead ==
  /\ prog = "sorter"
  /\ ef_pc = "run"
  /\ ef.sorted # <<>>
  /\ ef_out' = Append(ef_out, Head(ef.sorted))
  /\ ef' = [ef EXCEPT !.sorted = Tail(@)]
  /\ FilterFrame
  /\ UNCHANGED <<ef_in, ef_pc, ef_first>>

SorterEnd ==
  /\ prog = "sorter"
  /\ ef_pc = "run"
  /\ ef.sorted = <<>>
  /\ ef_pc' = "done"
  /\ FilterFrame
  /\ UNCHANGED <<ef_in, ef, ef_out, ef_first>>

NextSorter == SorterPush \/ SorterSort \/ SorterRead \/ SorterEnd

SpecSorter == InitSorter /\ [][NextSorter]_vars

-----------------------------------------------------------------------------
(* Unit: EdgeWriterPool (EdgeWriterPool.hpp) and the workers of main_pba *)

\* One file name for every writer of a prefix.
PoolPathNoIndex(base_path, i) == base_path[(i % Len(base_path)) + 1] \o "graph.bin"

\* ss << _base_path[i % _base_path.size()] << "graph" << i << ".bin"
PoolPath(base_path, i) ==
  base_path[(i % Len(base_path)) + 1] \o "graph" \o ToString(i) \o ".bin"

\* totalEdgesWritten(): the loop over _writers
RECURSIVE TotalEdgesWritten(_)
TotalEdgesWritten(writers) ==
  IF writers = <<>> THEN 0
  ELSE Head(writers).edges_written + TotalEdgesWritten(Tail(writers))

\* The lists of n prefixes a configuration file can hold.
RECURSIVE PrefixLists(_)
PrefixLists(n) ==
  IF n = 0 THEN {<<>>}
  ELSE {Append(ps, q) : ps \in PrefixLists(n - 1), q \in PoolPrefixes}

\* On entry to the constructor, _find_config() done: _base_path holds the
\* prefixes of the configuration file ("./" when there is no file; none when
\* the file has no prefix line).
InitPool ==
  /\ UnitIdle
  /\ prog = "pool"
  /\ ndebug = FALSE
  /\ TokenIdle
  /\ MergerIdle
  /\ TfpIdle
  /\ \E number_of_writer \in 0..MaxWriters :
       \E base_path \in UNION {PrefixLists(n) : n \in 0..MaxPrefixes} :
         cfg = [number_of_writers |-> number_of_writer, base_path |-> base_path]
  /\ pc = "new"
  /\ gen = NoMain
  /\ randomTokens = <<>>
  /\ filter = NoMain
  /\ edges_written = 0
  /\ file = <<>>
  /\ mppq = <<>>
  /\ filled = <<>>
  /\ ewpool = <<>>
  /\ emitted = <<>>
  /\ batch = NoMain
  /\ edges_processed = 0

PoolFrame ==
  UNCHANGED <<prog, ndebug, tokenVars, mergerVars, tfpVars, unitVars, cfg, gen, randomTokens,
              filter, file, mppq, filled, emitted, edges_processed>>

\* assert(_base_path.size() > 0); one writer per i < _number_of_writers
PoolNew ==
  /\ prog = "pool"
  /\ pc = "new"
  /\ IF Len(cfg.base_path) = 0
       THEN /\ pc' = "abort"
            /\ UNCHANGED ewpool
       ELSE /\ pc' = "open"
            /\ ewpool' = [i \in 1..cfg.number_of_writers |->
                           [path |-> PoolPath(cfg.base_path, i - 1), edges_written |-> 0]]
  /\ PoolFrame
  /\ UNCHANGED <<edges_written, batch>>

\* A worker of main_pba: process(..., ewpool[tid]) hands edges to the writer
\* operator[](tid) returns, *(_writers.at(tid)).
PoolWorker ==
  /\ prog = "pool"
  /\ pc = "open"
  /\ \E tid \in 0..(cfg.number_of_writers - 1), k \in 1..MaxPoolEdges :
       /\ ewpool[tid + 1].edges_written + k <= MaxPoolEdges
       /\ ewpool' = [ewpool EXCEPT ![tid + 1].edges_written = @ + k]
       /\ batch' = [worker |-> tid, edges |-> k]
  /\ PoolFrame
  /\ UNCHANGED <<pc, edges_written>>

\* ewpool.totalEdgesWritten()
PoolTotal ==
  /\ prog = "pool"
  /\ pc = "open"
  /\ edges_written' = TotalEdgesWritten(ewpool)
  /\ PoolFrame
  /\ UNCHANGED <<pc, ewpool, batch>>

NextPool == PoolNew \/ PoolWorker \/ PoolTotal

SpecPool == InitPool /\ [][NextPool]_vars

-----------------------------------------------------------------------------
(* Unit: the token streams InitialCircle and RegularVertexTokenStream *)

StreamArgs ==
  {[kind |-> "circle", number_of_vertices |-> k, first_id |-> first] :
     k \in 0..MaxStreamVertices, first \in 0..MaxStreamFirst}
  \cup
  {[kind |-> "regular", first_vertex |-> v0, first_edge_list_idx |-> s0,
    number_of_vertices |-> n, edges_per_vertex |-> m] :
     v0 \in 0..MaxStreamFirst, s0 \in 0..MaxStreamFirst,
     n \in 0..MaxStreamVertices, m \in 0..MaxStreamEdgesPerVertex}

\* The constructor and the streaming interface of either class.
StreamConstruct(a) ==
  IF a.kind = "circle"
    THEN InitialCircle(a.number_of_vertices, a.first_id)
    ELSE RegularVertexTokenStream(a.first_vertex, a.first_edge_list_idx,
                                  a.number_of_vertices, a.edges_per_vertex)

StreamEmpty(a, s) == IF a.kind = "circle" THEN ICEmpty(s) ELSE RVEmpty(s)
StreamPeek(a, s) == IF a.kind = "circle" THEN ICPeek(s) ELSE RVPeek(s)
StreamInc(a, s) == IF a.kind = "circle" THEN ICInc(s) ELSE RVInc(s)

InitStream ==
  /\ prog = "stream"
  /\ ndebug = FALSE
  /\ TokenIdle
  /\ MergerIdle
  /\ TfpIdle
  /\ MainIdle
  /\ FilterIdle
  /\ WriterIdle
  /\ ArgsIdle
  /\ ReservoirIdle
  /\ EpochsIdle
  /\ st_pc = "new"
  /\ st_args \in StreamArgs
  /\ st = NoStream
  /\ st_out = <<>>

StreamFrame ==
  UNCHANGED <<prog, ndebug, tokenVars, mergerVars, tfpVars, mainVars, efVars, ewVars, argVars, rsVars, epVars>>

StreamNew ==
  /\ prog = "stream"
  /\ st_pc = "new"
  /\ st' = StreamConstruct(st_args)
  /\ st_pc' = "run"
  /\ StreamFrame
  /\ UNCHANGED <<st_args, st_out>>

\* for(; !stream.empty(); ++stream) { read *stream }
StreamRead ==
  /\ prog = "stream"
  /\ st_pc = "run"
  /\ ~StreamEmpty(st_args, st)
  /\ st_out' = Append(st_out, StreamPeek(st_args, st))
  /\ st' = StreamInc(st_args, st)
  /\ StreamFrame
  /\ UNCHANGED <<st_pc, st_args>>

StreamEnd ==
  /\ prog = "stream"
  /\ st_pc = "run"
  /\ StreamEmpty(st_args, st)
  /\ st_pc' = "done"
  /\ StreamFrame
  /\ UNCHANGED <<st_args, st, st_out>>

NextStream == StreamNew \/ StreamRead \/ StreamEnd

SpecStream == InitStream /\ [][NextStream]_vars

-----------------------------------------------------------------------------
(* The command line of main_ba.cpp, main_pba.cpp and main_bbcr.cpp *)

\* if (!verts) in place of if (!verts || !epv)
RejectsVertsOnly(verts, epv) == verts = 0

\* main_ba, main_pba: if (!verts || !epv)
RejectsVertsEpv(verts, epv) == verts = 0 \/ epv = 0

\* main_bbcr: the three tests, in the order of the code.
RejectsWeights(alpha, beta, gamma) ==
  alpha < 0 \/ beta < 0 \/ gamma < 0 \/ (alpha + beta + gamma) < SumEpsilon

RejectsOffsets(degree_offset_in, degree_offset_out) ==
  degree_offset_in < 0 \/ degree_offset_out < 0

RejectsEdgesSeed(edges, seed_verts) == edges = 0 \/ seed_verts < 2

ArgsRejected(a) ==
  IF a.program \in {"ba", "pba"}
    THEN RejectsVertsEpv(a.verts, a.epv)
    ELSE \/ RejectsWeights(a.alpha, a.beta, a.gamma)
         \/ RejectsOffsets(a.degree_offset_in, a.degree_offset_out)
         \/ RejectsEdgesSeed(a.edges, a.seed_verts)

\* What main constructs after the block that parses the command line, in the
\* order of the code.
MainObjects(program) ==
  CASE program = "ba" ->
         <<"seedTokens", "regularTokens", "randomTokens", "merger", "prio_queue",
           "process", "edge_writer">>
    [] program = "pba" ->
         <<"mppq", "seed_graph", "ewpool">>
    [] program = "bbcr" ->
         <<"seedTokens", "model", "merger", "prio_queue", "process", "edge_writer">>

\* The values the parser stored when cp.process succeeded. seed_verts has no
\* initialiser and is stored only with -n: without -n its value is any value.
InitArgs ==
  /\ prog = "args"
  /\ ndebug = FALSE
  /\ TokenIdle
  /\ MergerIdle
  /\ TfpIdle
  /\ MainIdle
  /\ FilterIdle
  /\ WriterIdle
  /\ StreamIdle
  /\ ReservoirIdle
  /\ EpochsIdle
  /\ av_pc = "parse"
  /\ av_created = {}
  /\ \/ \E program \in {"ba", "pba"}, verts, epv \in 0..MaxArgVerts :
          av = [program |-> program, verts |-> verts, epv |-> epv]
     \/ \E alpha, beta, gamma \in ArgDoubles, din, dout \in {-1, 0, 1},
           edges \in 0..MaxArgEdges, n_given \in BOOLEAN, seed_verts \in 0..MaxArgSeedVerts :
          av = [program |-> "bbcr", alpha |-> alpha, beta |-> beta, gamma |-> gamma,
                degree_offset_in |-> din, degree_offset_out |-> dout,
                edges |-> edges, n_given |-> n_given, seed_verts |-> seed_verts]

ArgsFrame ==
  UNCHANGED <<prog, ndebug, tokenVars, mergerVars, tfpVars, mainVars, efVars, ewVars, stVars, rsVars, epVars>>

\* print_usage(); return -1;
ArgsReject ==
  /\ prog = "args"
  /\ av_pc = "parse"
  /\ ArgsRejected(av)
  /\ av_pc' = "error"
  /\ ArgsFrame
  /\ UNCHANGED <<av, av_created>>

\* apply config
ArgsApply ==
  /\ prog = "args"
  /\ av_pc = "parse"
  /\ ~ArgsRejected(av)
  /\ av_pc' = "config"
  /\ ArgsFrame
  /\ UNCHANGED <<av, av_created>>

\* The next declaration of main.
ArgsConstruct ==
  /\ prog = "args"
  /\ av_pc = "config"
  /\ Cardinality(av_created) < Len(MainObjects(av.program))
  /\ av_created' = av_created \cup {MainObjects(av.program)[Cardinality(av_created) + 1]}
  /\ ArgsFrame
  /\ UNCHANGED <<av_pc, av>>

ArgsRun ==
  /\ prog = "args"
  /\ av_pc = "config"
  /\ Cardinality(av_created) = Len(MainObjects(av.program))
  /\ av_pc' = "run"
  /\ ArgsFrame
  /\ UNCHANGED <<av, av_created>>

NextArgs == ArgsReject \/ ArgsApply \/ ArgsConstruct \/ ArgsRun

SpecArgs == InitArgs /\ [][NextArgs]_vars

-----------------------------------------------------------------------------
(* Unit: EdgeWriter *)

\* EdgeWriter(filename, expected_num_elems): the file is created empty, the
\* vector over it is resized to expected_num_elems, the buffered writer starts
\* at the vector's begin.
EdgeWriter(expected_num_elems) ==
  [vector_size    |-> IF expected_num_elems # 0 THEN expected_num_elems ELSE 0,
   written        |-> <<>>,
   edges_written  |-> 0,
   disable_output |-> FALSE]

SetDisableOutput(w, v) == [w EXCEPT !.disable_output = v]

\* _writer << x for each x of xs: the writer appends behind what it wrote
\* before and the vector grows when it is too small.
WriterPut(w, xs) ==
  [w EXCEPT !.written = @ \o xs,
            !.vector_size = Max(@, Len(w.written) + Len(xs))]

\* A call that returns without touching the stream.
StreamRestKept(stream) == stream

\* for(; !stream.empty(); ++stream): the stream when the loop has ended
RECURSIVE StreamRest(_)
StreamRest(stream) == IF stream = <<>> THEN stream ELSE StreamRest(Tail(stream))

WriteVertices(w, stream) ==
  IF w.disable_output THEN w
  ELSE [WriterPut(w, stream) EXCEPT !.edges_written = @ + WriteVerticesCount(stream)]

WriteEdges(w, stream) ==
  IF w.disable_output THEN w
  ELSE [WriterPut(w, Flatten(stream)) EXCEPT !.edges_written = @ + Len(stream)]

BytesPerVertex(w) == Bool2Nat(~w.disable_output) * SizeofOutType

EdgesWritten(w) == w.edges_written

BytesFilesize(w) == 2 * EdgesWritten(w) * BytesPerVertex(w)

\* The size the destructor keeps: every element of the vector.
DestructorSizeKeep(w) == w.vector_size

\* _vector.resize(2*_edges_written)
DestructorSize(w) == 2 * w.edges_written

\* ~EdgeWriter
Destructor(w) ==
  IF ~w.disable_output THEN [w EXCEPT !.vector_size = DestructorSize(w)] ELSE w

\* The file behind the vector: one element per element of the vector, the
\* written ones first; an element never written reads 0.
VectorFile(w) ==
  [i \in 1..w.vector_size |-> IF i <= Len(w.written) THEN w.written[i] ELSE 0]

InitWriter ==
  /\ prog = "writer"
  /\ ndebug = FALSE
  /\ TokenIdle
  /\ MergerIdle
  /\ TfpIdle
  /\ MainIdle
  /\ FilterIdle
  /\ StreamIdle
  /\ ArgsIdle
  /\ ReservoirIdle
  /\ EpochsIdle
  /\ ew_pc = "new"
  /\ ew = NoWriter
  /\ ew_file = <<>>
  /\ ew_call = NoCall

WriterFrame ==
  UNCHANGED <<prog, ndebug, tokenVars, mergerVars, tfpVars, mainVars, efVars, stVars, argVars, rsVars, epVars>>

WriterNew ==
  /\ prog = "writer"
  /\ ew_pc = "new"
  /\ \E expected_num_elems \in 0..MaxExpected : ew' = EdgeWriter(expected_num_elems)
  /\ ew_pc' = "open"
  /\ WriterFrame
  /\ UNCHANGED <<ew_file, ew_call>>

WriterSetDisableOutput ==
  /\ prog = "writer"
  /\ ew_pc = "open"
  /\ \E v \in BOOLEAN : ew' = SetDisableOutput(ew, v)
  /\ WriterFrame
  /\ UNCHANGED <<ew_pc, ew_file, ew_call>>

\* The streams handed to the writer hold at least one element and leave the
\* writer with MaxWritten vertices at most.
WriterWriteVertices ==
  /\ prog = "writer"
  /\ ew_pc = "open"
  /\ \E k \in 1..(MaxWritten - Len(ew.written)) :
       \E stream \in [1..k -> WriterVertices] :
         /\ ew' = WriteVertices(ew, stream)
         /\ ew_call' = [op |-> "writeVertices", stream |-> stream, rest |-> StreamRest(stream)]
  /\ WriterFrame
  /\ UNCHANGED <<ew_pc, ew_file>>

WriterWriteEdges ==
  /\ prog = "writer"
  /\ ew_pc = "open"
  /\ \E k \in 1..((MaxWritten - Len(ew.written)) \div 2) :
       \E stream \in [1..k -> WriterVertices \X WriterVertices] :
         /\ ew' = WriteEdges(ew, stream)
         /\ ew_call' = [op |-> "writeEdges", stream |-> stream, rest |-> StreamRest(stream)]
  /\ WriterFrame
  /\ UNCHANGED <<ew_pc, ew_file>>

\* The writer goes out of scope: the destructor runs, then the vector and the
\* file are closed.
WriterClose ==
  /\ prog = "writer"
  /\ ew_pc = "open"
  /\ ew' = Destructor(ew)
  /\ ew_file' = VectorFile(Destructor(ew))
  /\ ew_pc' = "closed"
  /\ WriterFrame
  /\ UNCHANGED ew_call

NextWriter ==
  \/ WriterNew
  \/ WriterSetDisableOutput
  \/ WriterWriteEdges
  \/ WriterWriteVertices
  \/ WriterClose

SpecWriter == InitWriter /\ [][NextWriter]_vars

-----------------------------------------------------------------------------
(* Unit: ReservoirSampling *)

\* T(): the value of a value-initialised item (uint64_t in the test)
DefaultItem == 0

\* ReservoirSampling(reservoir_size): _reservoir(reservoir_size) is a vector
\* of reservoir_size value-initialised items.
ReservoirSampling(reservoir_size) ==
  [reservoir |-> [i \in 1..reservoir_size |-> DefaultItem],
   reservoir_target_size |-> reservoir_size,
   elements_pushed |-> 0]

\* push(d), with r the value of Random::randint(_elements_pushed) where the
\* call is reached.
ReservoirPushFill(s, d) ==
  [s EXCEPT !.elements_pushed = @ + 1, !.reservoir = Append(@, d)]

ReservoirPushDraw(s, d, r) ==
  IF r >= s.reservoir_target_size
    THEN [s EXCEPT !.elements_pushed = @ + 1]
    ELSE IF r < Len(s.reservoir)
      THEN [s EXCEPT !.elements_pushed = @ + 1, !.reservoir[r + 1] = d]
      ELSE [s EXCEPT !.elements_pushed = @ + 1, !.reservoir = Append(@, d)]

\* The test of push that selects the branch commented "Initial fill".
ReservoirInitialFill(s) == s.reservoir_target_size <= s.elements_pushed + 1

InitReservoir ==
  /\ prog = "reservoir"
  /\ ndebug \in BOOLEAN
  /\ TokenIdle
  /\ MergerIdle
  /\ TfpIdle
  /\ MainIdle
  /\ FilterIdle
  /\ WriterIdle
  /\ StreamIdle
  /\ ArgsIdle
  /\ EpochsIdle
  /\ rs_pc = "new"
  /\ rs_size \in 0..MaxReservoir
  /\ rs = NoReservoir
  /\ rs_pushed = <<>>

ReservoirFrame ==
  UNCHANGED <<prog, ndebug, tokenVars, mergerVars, tfpVars, mainVars, efVars, ewVars, stVars, argVars, epVars>>

\* ReservoirSampling<uint64_t> res(reservoir_size); assert(reservoir_size > 0)
ReservoirNew ==
  /\ prog = "reservoir"
  /\ rs_pc = "new"
  /\ rs' = ReservoirSampling(rs_size)
  /\ rs_pc' = IF rs_size > 0 \/ ndebug THEN "run" ELSE "abort"
  /\ ReservoirFrame
  /\ UNCHANGED <<rs_size, rs_pushed>>

\* res.push(d)
ReservoirPush ==
  /\ prog = "reservoir"
  /\ rs_pc = "run"
  /\ Len(rs_pushed) < MaxReservoirPushes
  /\ \E d \in 0..MaxReservoirItem :
       /\ rs_pushed' = Append(rs_pushed, d)
       /\ IF ReservoirInitialFill(rs)
            THEN rs' = ReservoirPushFill(rs, d)
            ELSE \E r \in RandInt(rs.elements_pushed + 1) : rs' = ReservoirPushDraw(rs, d, r)
  /\ ReservoirFrame
  /\ UNCHANGED <<rs_pc, rs_size>>

NextReservoir == ReservoirNew \/ ReservoirPush

SpecReservoir == InitReservoir /\ [][NextReservoir]_vars

-----------------------------------------------------------------------------
(* Properties of the token types (SpecToken) *)

KindRank(x) == IF x.query THEN 1 ELSE 0

\* (idx, kind, value) compared lexicographically, a Link before a Query.
LexLess(x, y) ==
  \/ x.index < y.index
  \/ /\ x.index = y.index
     /\ \/ KindRank(x) < KindRank(y)
        \/ KindRank(x) = KindRank(y) /\ x.value < y.value

\* The ranges the two layouts can hold: Token64 keeps 63 bits of the index and
\* the whole value, TokenCompressed 47 bits of each.
Token64Fits(x) == x.index < Pow2(WordBits - 1) /\ x.value < Pow2(WordBits)
TokenCompressedFits(x) == x.index < Pow2(MaskBits) /\ x.value < Pow2(MaskBits)

ArgsFit ==
  \A i \in 1..2 :
    /\ tk_kind = "t64" => Token64Fits(tk_args[i])
    /\ tk_kind = "tc" => TokenCompressedFits(tk_args[i])

\* C7: for both token types, a < b is the lexicographic order of
\* (idx, kind, value) with Link before Query, whenever the arguments are in
\* the range of the type; so Link(i,a) < Query(i,b) < Link(i+1,c).
C7_TokenOrder ==
  (tk_lt # "none" /\ ArgsFit) => ((tk_lt = "true") <=> LexLess(tk_args[1], tk_args[2]))

\* A compressed Link compared less than a Query of the same index that
\* carries a smaller value.
C7_Witness ==
  /\ tk_kind = "tc"
  /\ tk_lt = "true"
  /\ ~tk_args[1].query /\ tk_args[2].query
  /\ tk_args[1].index = tk_args[2].index
  /\ tk_args[1].value > tk_args[2].value

\* C8: a token whose index (Token64: >= 2^63) or whose index or value
\* (TokenCompressed: >= 2^47) is out of range is never constructed.
C8_OutOfRangeRejected == tk_kind \in {"t64", "tc"} => ArgsFit

-----------------------------------------------------------------------------
(* Properties of the StreamMerger (SpecMerger) *)

Ascending(s) == \A i \in 1..(Len(s) - 1) : s[i] <= s[i + 1]

CountIn(s, v) == Cardinality({i \in DOMAIN s : s[i] = v})

RECURSIVE CountInAll(_, _)
CountInAll(ss, v) ==
  IF ss = <<>> THEN 0 ELSE CountIn(Head(ss), v) + CountInAll(Tail(ss), v)

\* C10: the merger yields its inputs' items in ascending order, each exactly
\* once, and is empty exactly when all of them were read; over empty inputs
\* it is empty right after construction.
C10_MergerOutput ==
  mg_pc = "run" =>
    /\ Ascending(mg_out)
    /\ MergerEmpty(mg) <=> (Len(mg_out) = SumLen(mg_data))
    /\ \A v \in 0..MaxItems :
         /\ CountIn(mg_out, v) <= CountInAll(mg_data, v)
         /\ MergerEmpty(mg) => CountIn(mg_out, v) = CountInAll(mg_data, v)
    /\ ~MergerEmpty(mg) => CountIn(mg_out, MergerPeek(mg)) < CountInAll(mg_data, MergerPeek(mg))

\* Three non-empty inputs were merged to the end.
C10_Witness ==
  /\ mg_pc = "run"
  /\ Len(mg_data) = 3
  /\ \A i \in 1..3 : mg_data[i] # <<>>
  /\ MergerEmpty(mg)
  /\ Len(mg_out) = 3

\* The front of input i and the element offered by the inputs listed after
\* it (*_others of level i) compare equal.
TieAt(m, i) ==
  /\ i < MergerLevels(m)
  /\ m.in[i] # <<>>
  /\ ~MergerEmptyAt(m, i + 1)
  /\ ~(Head(m.in[i]) < MergerPeekAt(m, i + 1))
  /\ ~(MergerPeekAt(m, i + 1) < Head(m.in[i]))

-----------------------------------------------------------------------------
(* Properties of the sequential TFP loop (SpecSeq) *)

\* The edge-list slot a token defines.
TargetOf(t) == IF TokenQuery(t) THEN TokenValue(t) ELSE TokenId(t)

\* Every slot 0..L-1 is the target of exactly one of the L tokens, and every
\* query asks for an earlier slot.
WellFormed(ts) ==
  /\ \A k \in 0..(Cardinality(ts) - 1) : Cardinality({t \in ts : TargetOf(t) = k}) = 1
  /\ \A t \in ts : TokenQuery(t) => TokenId(t) < TokenValue(t)

\* The nodes of the slots 0..k-1: the node of a slot is the value of its Link,
\* or the node of the queried slot.
RECURSIVE NodesUpTo(_, _)
NodesUpTo(ts, k) ==
  IF k = 0 THEN <<>>
  ELSE LET before == NodesUpTo(ts, k - 1)
           t == CHOOSE u \in ts : TargetOf(u) = k - 1
       IN  Append(before, IF TokenQuery(t) THEN before[TokenId(t) + 1] ELSE TokenValue(t))

\* The node of slot k alone.
RECURSIVE NodeOf(_, _)
NodeOf(ts, k) ==
  LET t == CHOOSE u \in ts : TargetOf(u) = k
  IN  IF TokenQuery(t) THEN NodeOf(ts, TokenId(t)) ELSE TokenValue(t)

\* The loop was constructed and has emitted nothing yet; it found its inputs
\* empty and the consumer (the write stage) has not run yet.
LoopStarted == tfp_pc = "run" /\ out = <<>>
LoopEnded == tfp_pc = "done" /\ pc # "done"

\* C1: the token streams are well-formed (one token per slot 0..L-1, queries
\* ask for earlier slots), in the BA and BBCR pipelines with
\* L = 2 * (seed_edges + E); over them the loop never aborts, every value it
\* emits is the node of the next slot, and at the end it has emitted exactly L
\* values, the k-th being the node of slot k, so that the slot of a Query
\* holds what the queried slot holds.
C1_TfpOutput ==
  prog \in TfpProgs =>
    /\ LoopStarted =>
         /\ WellFormed(tfp_tokens)
         /\ prog = "ba" =>
              Cardinality(tfp_tokens) =
                2 * (2 * cfg.edges_per_vertex + cfg.number_of_vertices * cfg.edges_per_vertex)
         /\ prog = "bbcr" =>
              Cardinality(tfp_tokens) = 2 * (cfg.number_of_seed_vertices + cfg.number_of_edges)
    /\ tfp_pc # "abort"
    /\ Len(out) <= Cardinality(tfp_tokens)
    /\ out # <<>> => out[Len(out)] = NodeOf(tfp_tokens, Len(out) - 1)
    /\ LoopEnded =>
         /\ Len(out) = Cardinality(tfp_tokens)
         /\ out = NodesUpTo(tfp_tokens, Len(out))
         /\ \A t \in tfp_tokens :
              TokenQuery(t) => out[TokenValue(t) + 1] = out[TokenId(t) + 1]

\* The loop ran to the end over a stream in which a query asks for a slot that
\* is itself defined by a query.
C1_Witness ==
  /\ prog = "tfp"
  /\ tfp_pc = "done"
  /\ Len(out) = 4
  /\ \E t, u \in tfp_tokens :
       TokenQuery(t) /\ TokenQuery(u) /\ TokenId(t) = TokenValue(u)

\* The loop has a token to process, and the token it hands to _processToken.
LoopHasToken == tfp_pc = "run" /\ ~(tfp_pq = <<>> /\ MergerEmpty(tfp_stream))
LoopToken ==
  IF TakeFromStream(tfp_stream, tfp_pq) THEN MergerPeek(tfp_stream) ELSE PQTop(tfp_pq)

\* C23: in the pipelines of main_ba and main_bbcr the assertion
\* _current_idx - 1 == token.id() holds at every Query handed to
\* _processToken (the Link consumed last has the Query's idx), and the Links
\* are consumed with idx 0, 1, 2, ... without gap or repetition.
C23_QueryAfterItsLink ==
  prog \in {"ba", "bbcr"} =>
    /\ tfp_pc # "abort"
    /\ LoopHasToken =>
         \A token \in {LoopToken} :
           IF TokenQuery(token)
             THEN tfp_idx >= 1 /\ tfp_idx - 1 = TokenId(token) /\ QueryAssertion(tfp_idx, token)
             ELSE TokenId(token) = tfp_idx

\* The loop of main_ba is about to process a Query while the answer to an
\* earlier Query waits in the queue.
C23_Witness ==
  /\ prog = "ba"
  /\ LoopHasToken
  /\ TokenQuery(LoopToken)
  /\ tfp_pq # <<>>
  /\ tfp_idx > 1

\* No token of the input defines the slot the query asks for, so that no
\* Link of this slot can have been consumed.
NoLinkFor(token) == ~\E u \in tfp_tokens : TargetOf(u) = TokenId(token)

\* C24: a malformed stream makes the sequential loop stop with an error: when
\* a Query(idx, v) is handed to _processToken and no Link(idx, _) has been
\* consumed, or v <= idx, the loop aborts and neither pushes a Link nor
\* emits a value.
C24_MalformedAborts ==
  [][(/\ prog = "tfp"
      /\ LoopHasToken
      /\ TokenQuery(LoopToken)
      /\ NoLinkFor(LoopToken) \/ TokenValue(LoopToken) <= TokenId(LoopToken))
     => tfp_pc' = "abort"]_vars

\* The queue before the step without the token the step consumed from it.
QueueKept == IF TakeFromStream(tfp_stream, tfp_pq) THEN tfp_pq ELSE PQPop(tfp_pq)

\* C25: in the sequential loop the priority queue only ever holds Links;
\* every token pushed has an idx strictly greater than the idx of the token
\* being consumed; and the tokens consumed from the stream and the queue
\* together come in ascending token order.
C25_QueueHoldsLaterLinks ==
  /\ [](prog \in TfpProgs => \A i \in 1..Len(tfp_pq) : ~TokenQuery(tfp_pq[i]))
  /\ [][(prog \in TfpProgs /\ LoopHasToken /\ tfp_pc' # "abort") =>
         /\ \A i \in 1..Len(tfp_pq') :
              \/ TokenId(tfp_pq'[i]) > TokenId(LoopToken)
              \/ \E j \in 1..Len(QueueKept) : QueueKept[j] = tfp_pq'[i]
         /\ Len(tfp_pq') = Len(QueueKept) + (IF TokenQuery(LoopToken) THEN 1 ELSE 0)
         /\ LoopHasToken' => TokenLess(LoopToken, LoopToken')]_vars

\* The loop consumes a Query while the answers to two earlier Queries wait in
\* the queue.
C25_Witness ==
  /\ prog \in TfpProgs
  /\ LoopHasToken
  /\ TokenQuery(LoopToken)
  /\ Len(tfp_pq) >= 2

\* Neither *_stream nor _prio_queue.top() is less than the other.
LoopTie ==
  /\ tfp_pc = "run"
  /\ tfp_pq # <<>>
  /\ ~MergerEmpty(tfp_stream)
  /\ ~TokenLess(MergerPeek(tfp_stream), PQTop(tfp_pq))
  /\ ~TokenLess(PQTop(tfp_pq), MergerPeek(tfp_stream))

-----------------------------------------------------------------------------
(* Properties of main_ba and main_bbcr (SpecGen) *)

\* seed_edges + E_requested
ExpectedEdges ==
  IF prog = "ba"
    THEN 2 * cfg.edges_per_vertex + cfg.number_of_vertices * cfg.edges_per_vertex
    ELSE cfg.number_of_seed_vertices + cfg.number_of_edges

\* C2 (as stated): for every setting of the filter flags, edgesWritten() at
\* the end is seed_edges + E_requested.
C2_EdgesWrittenAllFlags ==
  (prog \in {"ba", "bbcr"} /\ pc = "done") => edges_written = ExpectedEdges

\* C2 (amended): edgesWritten() at the end is seed_edges + E_requested when no
\* filter flag is set, and at most that when one is: the filters remove edges
\* without replacement.
C2_EdgesWritten ==
  (prog \in {"ba", "bbcr"} /\ pc = "done") =>
    /\ (~filter.self_loops /\ ~filter.multi_edges) => edges_written = ExpectedEdges
    /\ edges_written <= ExpectedEdges
    /\ edges_written = Len(file) \div 2

\* main_ba finished without filters.
C2_Witness ==
  /\ prog = "ba"
  /\ pc = "done"
  /\ ~filter.self_loops /\ ~filter.multi_edges
  /\ cfg.number_of_vertices = 2
  /\ edges_written = 4

-----------------------------------------------------------------------------
(* Properties of the parallel engine (SpecPBA, FairSpecPBA) *)

RECURSIVE SumTo(_, _)
SumTo(f, k) == IF k < 0 THEN 0 ELSE f[k] + SumTo(f, k - 1)

RequestedEdges == cfg.number_of_vertices * cfg.edges_per_vertex

\* The edges writer i received from the workers (writer 1 holds the seed
\* path in front of them).
WorkerEdges(i) ==
  IF i = 1 THEN SubSeq(ewpool[1], SeedGraphEdges(cfg.edges_per_vertex) + 1, Len(ewpool[1]))
  ELSE ewpool[i]

RECURSIVE EdgesOfWriters(_)
EdgesOfWriters(i) == IF i = 0 THEN 0 ELSE Len(ewpool[i]) + EdgesOfWriters(i - 1)

\* C3: in main_pba no edge index is emitted twice; the edges counted by the
\* batches are the edges emitted; and when the queue has run empty every
\* edge index in [0, n*m) has been emitted exactly once, the batches have
\* completed n*m edges in total and the writers hold seed_edges + n*m edges.
C3_EachEdgeOnce ==
  (prog = "pba" /\ pc \in {"batch", "done"}) =>
    /\ \A e \in DOMAIN emitted : emitted[e] <= 1
    /\ DOMAIN emitted = 0..(RequestedEdges - 1)
    /\ edges_processed = SeedGraphEdges(cfg.edges_per_vertex) + SumTo(emitted, RequestedEdges - 1)
    /\ EdgesOfWriters(cfg.number_of_threads) = edges_processed
    /\ pc = "done" =>
         /\ \A e \in DOMAIN emitted : emitted[e] = 1
         /\ edges_processed - SeedGraphEdges(cfg.edges_per_vertex) = RequestedEdges
         /\ EdgesOfWriters(cfg.number_of_threads)
              = SeedGraphEdges(cfg.edges_per_vertex) + RequestedEdges

\* A finished run in which a team of two workers both emitted edges.
C3_Witness ==
  /\ prog = "pba"
  /\ pc = "done"
  /\ RequestedEdges = 2 * MinBatchSize
  /\ cfg.number_of_threads >= 2
  /\ Len(ewpool[2]) > 0
  /\ batch.completed > 0

\* The tokens of the filled queue that decide edge index e: the Link with
\* that index, or the Query whose answer will carry it.
FilledFor(e) ==
  {i \in 1..Len(filled) :
     LET t == TCDecompress(filled[i])
     IN  IF TCIsQuery(filled[i]) THEN t.value = e ELSE t.index = e}

\* Sequential TFP semantics on the filled queue: the value of edge index e.
RECURSIVE SeqValue(_)
SeqValue(e) ==
  IF FilledFor(e) = {} THEN -1
  ELSE LET i == CHOOSE k \in FilledFor(e) : TRUE
           t == TCDecompress(filled[i])
       IN  IF ~TCIsQuery(filled[i]) THEN t.value
           ELSE IF t.index < e THEN SeqValue(t.index)
           ELSE -1

\* The edge of edge index e: its value and the vertex owning the index.
SeqEdge(e) ==
  <<SeqValue(e), e \div cfg.edges_per_vertex + SeedGraphMaxVertexId(cfg.edges_per_vertex) + 1>>

\* How often the workers handed the edge to a writer.
RECURSIVE CountWritten(_, _)
CountWritten(edge, i) ==
  IF i = 0 THEN 0
  ELSE Cardinality({k \in 1..Len(WorkerEdges(i)) : WorkerEdges(i)[k] = edge})
       + CountWritten(edge, i - 1)

WrittenEdges == UNION {{WorkerEdges(i)[k] : k \in 1..Len(WorkerEdges(i))} : i \in DOMAIN ewpool}

\* C4: whatever the team sizes and batch sizes of a run of main_pba, the
\* edges its workers have emitted when the queue has run empty are, as a
\* multiset, the sequential TFP resolution of the n*m edge indices over the
\* tokens the fill left in the queue (the resolved value paired with the
\* vertex owning the index); so the multiset depends on the filled queue only.
C4_EdgesAsSequential ==
  (prog = "pba" /\ pc = "done") =>
    \A seq \in {[e \in 0..(RequestedEdges - 1) |-> SeqEdge(e)]} :
      \A edge \in WrittenEdges \cup {seq[e] : e \in DOMAIN seq} :
        CountWritten(edge, cfg.number_of_threads)
          = Cardinality({e \in DOMAIN seq : seq[e] = edge})

\* A finished run whose fill held a Query on a Query, with edges from both
\* workers of a team.
C4_Witness ==
  /\ prog = "pba"
  /\ pc = "done"
  /\ Len(ewpool) >= 2
  /\ Len(ewpool[2]) > 0
  /\ \E i, j \in 1..Len(filled) :
       /\ TCIsQuery(filled[i])
       /\ TCIsQuery(filled[j])
       /\ TCDecompress(filled[i]).value = TCDecompress(filled[j]).index

\* C6: the batch loop of main_pba ends with an empty queue, and no batch
\* leaves the contents of the queue as they were.
C6_Terminates ==
  /\ (prog = "pba" /\ pc = "batch") ~> (pc = "done" /\ mppq = <<>>)
  /\ [][(prog = "pba" /\ pc = "batch" /\ pc' = "batch") => mppq' # mppq]_vars

\* A batch of a team that completed no edge (every worker pushed its Link
\* back to the queue), with tokens still queued.
C6_Witness ==
  /\ prog = "pba"
  /\ pc = "batch"
  /\ batch # NoMain
  /\ batch.completed = 0
  /\ batch.nthreads = 2
  /\ mppq # <<>>

\* The positions of the queue that hold a Query with index e, and those that
\* hold a Link with index e.
QueriesOf(q, e) == {i \in 1..Len(q) : TCIsQuery(q[i]) /\ TCDecompress(q[i]).index = e}
LinksOf(q, e) == {i \in 1..Len(q) : ~TCIsQuery(q[i]) /\ TCDecompress(q[i]).index = e}

\* C26: in main_pba the Link of edge index e is emitted as an edge only after
\* every Query with index e has been answered: from the bulk_push_end of the
\* batch that emits it on, no Query with index e is in the queue (none
\* remains from the buffer or the epoch, and none is inserted later), and
\* for every Query (e, v) of the fill the Link of v has been pushed: it is
\* in the queue or has been emitted itself.
C26_EmittedAfterAnswers ==
  (prog = "pba" /\ pc \in {"batch", "done"}) =>
    \A e \in DOMAIN emitted :
      emitted[e] >= 1 =>
        /\ QueriesOf(mppq, e) = {}
        /\ \A i \in QueriesOf(filled, e) :
             \A v \in {TCDecompress(filled[i]).value} :
               LinksOf(mppq, v) # {} \/ emitted[v] >= 1

\* A batch of a team has emitted the edge of an index that two Queries of
\* the fill asked for, and the answer to one of them is still queued.
C26_Witness ==
  /\ prog = "pba"
  /\ pc = "batch"
  /\ batch # NoMain
  /\ batch.nthreads = 2
  /\ \E e \in DOMAIN emitted :
       /\ emitted[e] >= 1
       /\ Cardinality(QueriesOf(filled, e)) >= 2
       /\ \E i \in QueriesOf(filled, e) : LinksOf(mppq, TCDecompress(filled[i]).value) # {}

\* A step of the batch loop that passed its assertions.
BatchStep == prog = "pba" /\ pc = "batch" /\ pc' = "batch"

\* The edge index a token of the queue decides.
TCTarget(x) == IF TCIsQuery(x) THEN TCDecompress(x).value ELSE TCDecompress(x).index

\* C27: in a batch the strips of the workers are contiguous, pairwise
\* disjoint and cover the buffer, and every strip boundary inside the buffer
\* lies immediately before a Link; every popped token is handled exactly
\* once: a Query is answered once or re-pushed once, a Link is emitted once
\* or re-pushed once, and the counters of the batch count the re-pushed
\* Queries and the emitted Links.
C27_StripsPartition ==
  [][BatchStep =>
       \A T \in {batch'.nthreads} : \A buf \in {SubSeq(mppq, 1, batch'.size)} :
         /\ StripBegin(buf, T, 0) = 1
         /\ StripEnd(buf, T, T - 1) = Len(buf) + 1
         /\ \A tid \in 0..(T - 1) : StripBegin(buf, T, tid) <= StripEnd(buf, T, tid)
         /\ \A tid \in 0..(T - 2) :
              \A b \in {StripEnd(buf, T, tid)} :
                /\ b = StripBegin(buf, T, tid + 1)
                /\ b <= Len(buf) => ~TCIsQuery(buf[b])
         /\ \A i \in 1..Len(buf) :
              \A k \in {TCTarget(buf[i])} :
                /\ Cardinality({j \in 1..Len(mppq') : TCTarget(mppq'[j]) = k})
                     + (emitted'[k] - emitted[k]) = 1
                /\ TCIsQuery(buf[i]) => emitted'[k] = emitted[k]
         /\ batch'.unanswered =
              Cardinality({i \in 1..Len(buf) :
                             TCIsQuery(buf[i]) /\ \E j \in 1..Len(mppq') : mppq'[j] = buf[i]})
         /\ batch'.completed =
              Cardinality({i \in 1..Len(buf) :
                             ~TCIsQuery(buf[i]) /\ emitted'[TCTarget(buf[i])] = emitted[TCTarget(buf[i])] + 1})
         /\ Len(mppq') + batch'.completed = Len(mppq)]_vars

\* The first batch of a run was handled by a team of two, and the nominal
\* chunk of the second worker began at a Query.
C27_Witness ==
  /\ prog = "pba"
  /\ pc = "batch"
  /\ batch # NoMain
  /\ batch.nthreads = 2
  /\ batch.size = Len(filled)
  /\ edges_processed = SeedGraphEdges(cfg.edges_per_vertex) + batch.completed
  /\ Len(mppq) + batch.completed = Len(filled)
  /\ TCIsQuery(filled[batch.size \div 2 + 1])

\* C29: the last-token rule. When the tokens behind a Link L up to the end of
\* its worker's strip all carry L's index (the scan reaches the end of the
\* strip) and the buffer holds more than one token, L is pushed again, once,
\* and no edge is emitted for it in this batch; otherwise (the scan stops at
\* another index, or the buffer holds one token) the edge of L is emitted,
\* once, and L is not pushed again. In either case the answer to each Query
\* behind L is pushed exactly once.
C29_LastTokenRule ==
  [][BatchStep =>
       \A T \in {batch'.nthreads} : \A buf \in {SubSeq(mppq, 1, batch'.size)} :
         \A tid \in 0..(T - 1) :
           \A end \in {StripEnd(buf, T, tid)} :
             \A i \in StripBegin(buf, T, tid)..(end - 1) :
               ~TCIsQuery(buf[i]) =>
                 \A t \in {TCDecompress(buf[i])} :
                   /\ IF (\A j \in (i + 1)..(end - 1) : TCDecompress(buf[j]).index = t.index)
                         /\ Len(buf) > 1
                        THEN /\ CountIn(mppq', buf[i]) = 1
                             /\ emitted'[t.index] = emitted[t.index]
                        ELSE /\ CountIn(mppq', buf[i]) = 0
                             /\ emitted'[t.index] = emitted[t.index] + 1
                             /\ \E k \in 1..Len(ewpool'[tid + 1]) :
                                  /\ k > Len(ewpool[tid + 1])
                                  /\ ewpool'[tid + 1][k][1] = t.value
                   /\ \A j \in (i + 1)..(end - 1) :
                        TCDecompress(buf[j]).index = t.index =>
                          CountIn(mppq', TokenCompressed(FALSE, TCDecompress(buf[j]).value, t.value)) = 1]_vars

\* The first batch of a run held the whole queue, more than one token; it
\* emitted an edge and pushed a Link of the fill again.
C29_Witness ==
  /\ prog = "pba"
  /\ pc = "batch"
  /\ batch # NoMain
  /\ batch.size = Len(filled)
  /\ batch.size > 1
  /\ edges_processed = SeedGraphEdges(cfg.edges_per_vertex) + batch.completed
  /\ batch.completed >= 1
  /\ \E j \in 1..Len(mppq) : ~TCIsQuery(mppq[j]) /\ CountIn(filled, mppq[j]) = 1

\* The tokens of the queue q that a batch pushed while it consumed the token
\* x of its buffer: those that decide the edge index x decides (C27).
PushedFor(q, x) == {q[j] : j \in {k \in 1..Len(q) : TCTarget(q[k]) = TCTarget(x)}}

\* C30 as claimed: every token a worker pushes while it consumes a token has
\* an index strictly greater than the index of the token consumed.
C30_PushedStrictlyLater ==
  [][BatchStep =>
       \A buf \in {SubSeq(mppq, 1, batch'.size)} :
         \A i \in 1..Len(buf) :
           \A x \in PushedFor(mppq', buf[i]) :
             TCDecompress(x).index > TCDecompress(buf[i]).index]_vars

\* C30, amended: a token a worker pushes while it consumes a token is either
\* the consumed token itself (a Query or a Link pushed again, with the same
\* index), or the answer to the consumed Query, a Link whose index is the
\* value of the Query and strictly greater than the index of the Query.
C30_PushedLaterOrSame ==
  [][BatchStep =>
       \A buf \in {SubSeq(mppq, 1, batch'.size)} :
         \A i \in 1..Len(buf) :
           \A x \in PushedFor(mppq', buf[i]) :
             \/ x = buf[i]
             \/ /\ TCIsQuery(buf[i])
                /\ ~TCIsQuery(x)
                /\ TCDecompress(x).index = TCDecompress(buf[i]).value
                /\ TCDecompress(x).index > TCDecompress(buf[i]).index]_vars

\* A batch has emitted an edge and pushed a Query again, and an answer of an
\* earlier epoch is queued behind that Query.
C30_Witness ==
  /\ prog = "pba"
  /\ pc = "batch"
  /\ batch # NoMain
  /\ batch.unanswered >= 1
  /\ batch.completed >= 1
  /\ \E j \in 1..Len(mppq) :
       /\ TCIsQuery(mppq[j])
       /\ \E k \in 1..Len(mppq) : k > j /\ ~TCIsQuery(mppq[k]) /\ CountIn(filled, mppq[k]) = 0

-----------------------------------------------------------------------------
(* Properties of the team of a batch (SpecPBAThreads) *)

\* clamp(|buf| / min_batch, 1, max_threads)
ClampThreads(size, max_threads) ==
  IF size \div MinBatchSize < 1 THEN 1
  ELSE IF size \div MinBatchSize > max_threads THEN max_threads
  ELSE size \div MinBatchSize

\* C31 as claimed: a batch of fewer than 2*min_batch tokens has one worker,
\* and every other batch has exactly clamp(|buf| / min_batch, 1, max_threads)
\* workers.
C31_TeamIsClamp ==
  (prog = "pba" /\ batch # NoMain) =>
    batch.nthreads = (IF batch.size < 2 * MinBatchSize THEN 1
                      ELSE ClampThreads(batch.size, cfg.number_of_threads))

\* C31, amended: a batch of fewer than 2*min_batch tokens is processed by one
\* worker with writer 0; for every other batch
\* T = clamp(|buf| / min_batch, 1, max_threads) threads are requested and the
\* team has between 1 and T workers; the nominal chunk of every worker,
\* |buf| / workers, has at least min_batch tokens, and the chunk assertion
\* (like every other assertion of the run) never fails.
C31_TeamWithinClamp ==
  /\ [](prog = "pba" =>
         /\ pc # "abort"
         /\ batch # NoMain =>
              /\ batch.size < 2 * MinBatchSize => batch.nthreads = 1
              /\ batch.nthreads >= 1
              /\ batch.nthreads <= ClampThreads(batch.size, cfg.number_of_threads)
              /\ batch.size >= 2 * MinBatchSize =>
                   batch.size \div batch.nthreads >= MinBatchSize)
  /\ [][(BatchStep /\ batch'.size < 2 * MinBatchSize) =>
         \A i \in DOMAIN ewpool : i > 1 => ewpool'[i] = ewpool[i]]_vars

\* A run with -p 3 whose buffer of four or five tokens was handled by a team
\* of two: the size of the buffer, not -p, limits the team.
C31_Witness ==
  /\ prog = "pba"
  /\ pc = "batch"
  /\ batch # NoMain
  /\ cfg.number_of_threads >= 3
  /\ batch.size >= 2 * MinBatchSize
  /\ batch.nthreads = 2
  /\ ClampThreads(batch.size, cfg.number_of_threads) = 2

-----------------------------------------------------------------------------
(* Properties of the calls of main_pba on its queue (SpecEpochs) *)

\* C28: every bulk_push (fill, answers, Queries and Links pushed again)
\* happens between a bulk_push_begin and its bulk_push_end; bulk_pop and the
\* test of empty() happen outside an epoch; each batch opens exactly one
\* epoch, after its bulk_pop, and closes it only when all its workers have
\* finished; the queue and the buffer do not change while the epoch is open,
\* so no token pushed during a batch is visible to that batch.
C28_PushesInsideEpoch ==
  /\ [](prog = "pba_calls" =>
         /\ ep_inserted # <<>> => ep_open
         /\ pc \in {"start", "loop", "popped", "done"} => ~ep_open
         /\ pc \in {"loop", "done"} =>
              ep_calls.begin = ep_calls.pop + 1 /\ ep_calls.end = ep_calls.pop + 1
         /\ pc = "popped" => ep_calls.begin = ep_calls.pop /\ ep_calls.end = ep_calls.pop
         /\ pc = "work" =>
              ep_open /\ ep_calls.begin = ep_calls.pop + 1 /\ ep_calls.end = ep_calls.pop)
  /\ [][prog = "pba_calls" =>
         /\ Len(ep_inserted') > Len(ep_inserted) => ep_open /\ ep_open'
         /\ ep_calls'.pop # ep_calls.pop =>
              ~ep_open /\ ~ep_open' /\ ep_inserted = <<>> /\ pc = "loop" /\ mppq # <<>>
         /\ (~ep_open /\ ep_open') =>
              pc \in {"start", "popped"} /\ ep_calls'.begin = ep_calls.begin + 1
         /\ (ep_open /\ ~ep_open') =>
              /\ ep_threads = {}
              /\ ep_calls'.end = ep_calls.end + 1
              /\ mppq' = BulkPush(mppq, ep_inserted)
         /\ (ep_open /\ ep_open') => mppq' = mppq /\ pq_buffer' = pq_buffer]_vars

\* In the second batch of a run one worker of a team of two has pushed
\* tokens and the other has not finished.
C28_Witness ==
  /\ prog = "pba_calls"
  /\ pc = "work"
  /\ ep_calls.pop = 2
  /\ batch.nthreads = 2
  /\ Cardinality(ep_threads) = 1
  /\ ep_inserted # <<>>

-----------------------------------------------------------------------------
(* Properties of the three generators (SpecAll) *)

\* C9: every Query a generator produces asks for a slot (an edge index, in
\* main_pba) below the one it fills: the queries main_ba and ModelBBCR push
\* to the sorter, and the queries in the bulk priority queue of main_pba,
\* whose workers therefore never fail an assertion.
C9_QueriesPointBack ==
  /\ \A i \in 1..Len(randomTokens) :
       TokenQuery(randomTokens[i]) => TokenValue(randomTokens[i]) > TokenId(randomTokens[i])
  /\ \A i \in 1..Len(mppq) :
       TCIsQuery(mppq[i]) => TCDecompress(mppq[i]).value > TCDecompress(mppq[i]).index
  /\ prog = "pba" => pc # "abort"

\* A batch of main_pba behind which a Query is still queued.
C9_Witness ==
  /\ prog = "pba"
  /\ pc = "batch"
  /\ batch # NoMain
  /\ \E i \in 1..Len(mppq) : TCIsQuery(mppq[i])

\* The tokens main_pba has pushed in its fill.
FillQueue == IF pc = "fill" THEN mppq ELSE filled

\* The bound of the draw for the k-th edge (k = 0, 1, ...) of a run: the
\* weight of the seed graph, 2m for every earlier vertex and, with edge
\* dependencies, 2 for every earlier edge of the same vertex.
DrawBound(k, seed_weight) ==
  seed_weight + 2 * cfg.edges_per_vertex * (k \div cfg.edges_per_vertex)
              + 2 * Bool2Nat(cfg.edge_dependencies) * (k % cfg.edges_per_vertex)

\* The edge index main_pba's token t decides.
FillTarget(t) == IF TCIsQuery(t) THEN TCDecompress(t).value ELSE TCDecompress(t).index

\* C34 as claimed: for the draw r of an edge, a Query(r, destination slot) is
\* emitted if r < 2*seed_edges or r is even, and otherwise a direct
\* Link(destination slot, vertex owning edge-position r); main_pba names the
\* position by its edge index.
C34_QueryUnlessOddBeyondSeed ==
  /\ prog = "ba" =>
       \A i \in 1..Len(randomTokens) :
         \E sw \in {ICNumberOfEdges(BASeed(cfg.edges_per_vertex)) * 2} :
           \E r \in 0..(DrawBound(i - 1, sw) - 1) :
             randomTokens[i] =
               (IF r < sw \/ r % 2 = 0
                  THEN Token64(TRUE, r, sw + 1 + 2 * (i - 1))
                  ELSE Token64(FALSE, sw + 1 + 2 * (i - 1),
                               ICMaxVertexId(BASeed(cfg.edges_per_vertex)) + 1
                                 + ((r - sw) \div 2) \div cfg.edges_per_vertex))
  /\ prog = "pba" =>
       \A i \in 1..Len(FillQueue) :
         \E sw \in {2 * SeedGraphEdges(cfg.edges_per_vertex)}, e \in {FillTarget(FillQueue[i])} :
           \E r \in 0..(DrawBound(e, sw) - 1) :
             TCDecompress(FillQueue[i]) =
               (IF r < sw THEN [query |-> TRUE, index |-> r, value |-> e]
                ELSE IF r % 2 = 0
                  THEN [query |-> TRUE, index |-> (r - sw) \div 2, value |-> e]
                ELSE [query |-> FALSE, index |-> e,
                      value |-> SeedGraphMaxVertexId(cfg.edges_per_vertex) + 1
                                  + ((r - sw) \div 2) \div cfg.edges_per_vertex])

\* C34, amended: exactly one token is emitted per edge (v, j) in both
\* generators. main_ba emits Query(r, destination slot) for every draw r, odd
\* or even, inside the seed range or beyond. main_pba emits for a draw
\* r < 2*seed_edges a direct Link(edge, seed_graph(r)) to a seed vertex, for
\* an odd r beyond the seed range a direct Link(edge, vertex owning
\* edge-position r), and for an even r beyond the seed range
\* Query((r - 2*seed_edges)/2, edge).
C34_OneTokenPerEdge ==
  /\ prog = "ba" =>
       /\ Len(randomTokens) = (IF pc = "gen"
                                 THEN gen.vertex * cfg.edges_per_vertex + gen.edge
                                 ELSE cfg.number_of_vertices * cfg.edges_per_vertex)
       /\ \A i \in 1..Len(randomTokens) :
            \E sw \in {ICNumberOfEdges(BASeed(cfg.edges_per_vertex)) * 2} :
              /\ TokenQuery(randomTokens[i])
              /\ TokenValue(randomTokens[i]) = sw + 1 + 2 * (i - 1)
              /\ TokenId(randomTokens[i]) < DrawBound(i - 1, sw)
  /\ prog = "pba" =>
       /\ pc # "abort"
       /\ Len(FillQueue) = (IF pc = "fill"
                              THEN gen.vertex * cfg.edges_per_vertex + gen.edge
                              ELSE cfg.number_of_vertices * cfg.edges_per_vertex)
       /\ \A e \in 0..(Len(FillQueue) - 1) :
            Cardinality({i \in 1..Len(FillQueue) : FillTarget(FillQueue[i]) = e}) = 1
       /\ \A i \in 1..Len(FillQueue) :
            \E sw \in {2 * SeedGraphEdges(cfg.edges_per_vertex)}, e \in {FillTarget(FillQueue[i])},
               t \in {TCDecompress(FillQueue[i])} :
              IF t.query
                THEN \E r \in sw..(DrawBound(e, sw) - 1) :
                       r % 2 = 0 /\ t.index = (r - sw) \div 2
                ELSE \/ \E r \in 0..(sw - 1) : t.value = RAGPathNode(r)
                     \/ \E r \in sw..(DrawBound(e, sw) - 1) :
                          /\ r % 2 = 1
                          /\ t.value = SeedGraphMaxVertexId(cfg.edges_per_vertex) + 1
                                         + ((r - sw) \div 2) \div cfg.edges_per_vertex

\* A fill of main_pba that has pushed a Link to a seed vertex, a Link to the
\* owner of an odd position and a Query.
C34_Witness ==
  /\ prog = "pba"
  /\ pc = "batch"
  /\ \E i, j, k \in 1..Len(filled) :
       /\ TCIsQuery(filled[i])
       /\ ~TCIsQuery(filled[j])
       /\ TCDecompress(filled[j]).value <= SeedGraphMaxVertexId(cfg.edges_per_vertex)
       /\ ~TCIsQuery(filled[k])
       /\ TCDecompress(filled[k]).value > SeedGraphMaxVertexId(cfg.edges_per_vertex)

\* main_ba: the values of the slots 2k and 2k+1 the loop has handed out form
\* edge k, (vertex, neighbour); the first 2m edges are the seed ring.
BAEdgesOut == {k \in 0..((Len(out) \div 2) - 1) : k >= ICNumberOfEdges(BASeed(cfg.edges_per_vertex))}

\* C35: in a run of main_ba or main_pba without -d no generated edge is a
\* self-loop: the neighbour of every edge of a new vertex is a vertex with a
\* strictly smaller id than the new vertex.
C35_NoSelfLoopWithoutD ==
  /\ (prog = "ba" /\ ~cfg.flag_d) =>
       \A k \in BAEdgesOut : out[2 * k + 2] < out[2 * k + 1]
  /\ (prog = "pba" /\ ~cfg.edge_dependencies) =>
       \A i \in DOMAIN ewpool : \A j \in 1..Len(WorkerEdges(i)) :
         WorkerEdges(i)[j][1] < WorkerEdges(i)[j][2]

\* The number of edges a finished run has produced.
EdgesProduced == IF prog = "pba" THEN EdgesOfWriters(cfg.number_of_threads) ELSE edges_written

\* C5: main_ba and main_pba produce the same edges for the same n and m; so
\* a finished unfiltered run of either holds as many edges as main_ba
\* writes, the 2m edges of the seed ring and the n*m edges of the vertices.
C5_SameEdgesBothEngines ==
  (/\ prog \in {"ba", "pba"}
   /\ pc = "done"
   /\ prog = "ba" => (~filter.self_loops /\ ~filter.multi_edges)) =>
    EdgesProduced = 2 * cfg.edges_per_vertex + RequestedEdges

-----------------------------------------------------------------------------
(* Properties of the EdgeSorter (SpecSorter) *)

\* The edges the sorter exposes: those read and those still to be read.
SorterEdges == ef_out \o ef.sorted

\* C38: over a stream of an even number of values the constructor of
\* EdgeSorter never fails its assertion and returns with the stream read to
\* its end; the edges it exposes are, as a multiset, the pairs of the values
\* at the positions (2e, 2e+1), first and second as they came, and they come
\* in ascending lexicographic order; they are the edges the write stage of
\* the generators takes from it.
C38_SortedPairs ==
  (prog = "sorter" /\ Len(ef_in) % 2 = 0) =>
    /\ ef_pc # "abort"
    /\ ef_pc \in {"run", "done"} =>
         /\ ef.stream = <<>>
         /\ Len(SorterEdges) = Len(ef_in) \div 2
         /\ \A x \in FilterNodes \X FilterNodes :
              Cardinality({i \in 1..Len(SorterEdges) : SorterEdges[i] = x})
                = Cardinality({e \in 0..((Len(ef_in) \div 2) - 1) :
                                 <<ef_in[2 * e + 1], ef_in[2 * e + 2]>> = x})
         /\ \A i \in 1..(Len(SorterEdges) - 1) :
              \/ SorterEdges[i][1] < SorterEdges[i + 1][1]
              \/ /\ SorterEdges[i][1] = SorterEdges[i + 1][1]
                 /\ SorterEdges[i][2] <= SorterEdges[i + 1][2]
         /\ SorterEdges = EdgeSorter(ef_in)
    /\ ef_pc = "done" => ef.sorted = <<>>

\* Two edges were read in the other order than they were pushed; the one
\* pushed first has its larger vertex first.
C38_Witness ==
  /\ prog = "sorter"
  /\ ef_pc = "done"
  /\ Len(ef_in) = 4
  /\ ef_in[1] > ef_in[2]
  /\ ef_out = <<<<ef_in[3], ef_in[4]>>, <<ef_in[1], ef_in[2]>>>>
  /\ ef_out[1] # ef_out[2]

-----------------------------------------------------------------------------
(* Properties of the EdgeFilter (SpecFilter) *)

NotSelfLoop(e) == e[1] # e[2]

\* The edges of a sorted stream, each once, in ascending order.
RECURSIVE DistinctEdges(_)
DistinctEdges(es) ==
  IF Len(es) <= 1 THEN es
  ELSE IF es[1] = es[2] THEN DistinctEdges(Tail(es))
  ELSE <<es[1]>> \o DistinctEdges(Tail(es))

\* What the filter is to let through.
FilterExpected(es, self_loops, multi_edges) ==
  LET kept == IF self_loops THEN SelectSeq(es, NotSelfLoop) ELSE es
  IN  IF multi_edges THEN DistinctEdges(kept) ELSE kept

IsPrefix(a, b) == Len(a) <= Len(b) /\ a = SubSeq(b, 1, Len(a))

\* C11: over a sorted stream the EdgeFilter lets through the edges of the
\* input in their order, without the self-loops when self_loops is set and
\* with every edge once when multi_edges is set, and drops nothing else;
\* with no flag the output is the input, and an empty input gives an empty
\* output.
C11_FilterOutput ==
  (prog = "filter" /\ ef_pc \in {"run", "done"} /\ ef_first = <<>>) =>
    /\ IsPrefix(ef_out, FilterExpected(ef_in, ef.self_loops, ef.multi_edges))
    /\ ef_pc = "done" =>
         /\ ef_out = FilterExpected(ef_in, ef.self_loops, ef.multi_edges)
         /\ (~ef.self_loops /\ ~ef.multi_edges) => ef_out = ef_in
         /\ ef_in = <<>> => ef_out = <<>>
         /\ ef.multi_edges => \A i, j \in 1..Len(ef_out) : i < j => ef_out[i] # ef_out[j]
         /\ ef.self_loops => \A i \in 1..Len(ef_out) : ef_out[i][1] # ef_out[i][2]

\* The stream (1,2),(1,2),(1,2),(2,2),(2,3) filtered with both flags.
C11_Witness ==
  /\ prog = "filter"
  /\ ef_pc = "done"
  /\ ef_first = <<>>
  /\ ef_in = <<<<1, 2>>, <<1, 2>>, <<1, 2>>, <<2, 2>>, <<2, 3>>>>
  /\ ef.self_loops
  /\ ef.multi_edges
  /\ ef_out = <<<<1, 2>>, <<2, 3>>>>

\* C12: a second EdgeFilter with both flags over the output of a first one
\* lets through exactly that output.
C12_FilterIdempotent ==
  (/\ prog = "filter"
   /\ ef_pc = "done"
   /\ ef_first # <<>>
   /\ ef.self_loops
   /\ ef.multi_edges) =>
    ef_out = ef_first[1]

\* A second application that ended, over a first one that had dropped a
\* self-loop and a repeated edge.
C12_Witness ==
  /\ prog = "filter"
  /\ ef_pc = "done"
  /\ ef_first # <<>>
  /\ ef.self_loops
  /\ ef.multi_edges
  /\ Len(ef_first[1]) >= 2
  /\ Len(ef_in) >= Len(ef_first[1]) + 2
  /\ ef_out = ef_first[1]

-----------------------------------------------------------------------------
(* Properties of the written graph (SpecGen) *)

\* The edges in the output file.
FileEdges == [i \in 1..(Len(file) \div 2) |-> <<file[2 * i - 1], file[2 * i]>>]

\* C13: in a graph main_ba writes with -m every edge is stored with
\* from <= to, and no undirected edge {u, v} is stored twice.
C13_CanonicalOnce ==
  (prog = "ba" /\ pc = "done" /\ filter.multi_edges) =>
    /\ \A i \in DOMAIN FileEdges : FileEdges[i][1] <= FileEdges[i][2]
    /\ \A i, j \in DOMAIN FileEdges :
         i < j => {FileEdges[i][1], FileEdges[i][2]} # {FileEdges[j][1], FileEdges[j][2]}

\* C14: a graph main_ba writes with edge dependencies and -s holds no edge
\* (u, u), among the edges of the seed ring and of the new vertices alike.
C14_NoSelfLoops ==
  (prog = "ba" /\ pc = "done" /\ cfg.edge_dependencies /\ filter.self_loops) =>
    \A i \in DOMAIN FileEdges : FileEdges[i][1] # FileEdges[i][2]

\* A run with -s in which the TFP loop emitted a self-loop of a new vertex.
C14_Witness ==
  /\ prog = "ba"
  /\ pc = "done"
  /\ cfg.edge_dependencies
  /\ filter.self_loops
  /\ \E i \in 1..(Len(out) \div 2) : out[2 * i - 1] = out[2 * i]
  /\ Len(file) < Len(out)

\* C15: without the flag -d every edge of the v-th new vertex of main_ba
\* draws from [0, 2*seed_edges + 2*m*v); the range grows with the earlier
\* edges of the vertex only when -d is given.
C15_IndependentWithoutFlag ==
  (prog = "ba" /\ pc = "gen" /\ gen.vertex < cfg.number_of_vertices /\ ~cfg.flag_d) =>
    gen.this_weight
      = 2 * ICNumberOfEdges(BASeed(cfg.edges_per_vertex))
        + 2 * cfg.edges_per_vertex * gen.vertex


-----------------------------------------------------------------------------
(* Properties of the EdgeWriter (SpecWriter) *)

\* C16: once a writer with output enabled is destroyed, the file holds
\* exactly 2*edges_written endpoints, the first 2*edges_written ones handed to
\* the writer, whatever size the vector was given at construction, and
\* bytesFilesize(), which the destructor leaves as it was, is the size of that
\* file in bytes.
C16_FileSizeOnClose ==
  (prog = "writer" /\ ew_pc = "closed" /\ ~ew.disable_output) =>
    /\ Len(ew_file) = 2 * EdgesWritten(ew)
    /\ ew_file = SubSeq(ew.written, 1, 2 * EdgesWritten(ew))
    /\ BytesFilesize(ew) = Len(ew_file) * SizeofOutType

\* A closed writer that was pre-sized with more elements than were written
\* and that wrote an edge.
C16_Witness ==
  /\ prog = "writer"
  /\ ew_pc = "closed"
  /\ ~ew.disable_output
  /\ EdgesWritten(ew) = 1
  /\ Len(ew.written) = 3
  /\ Len(ew_file) = 2

\* C39: a call of writeVertices or writeEdges on a writer with output
\* disabled reads its stream to the end, writes nothing and leaves
\* edgesWritten() as it was; and when a writer with output disabled is
\* destroyed the vector, and with it the file, keeps the size it had.
C39_DisabledWritesNothing ==
  /\ [][(prog = "writer" /\ ew_pc = "open" /\ ew.disable_output /\ ew_call' # ew_call) =>
         /\ ew_call'.stream # <<>>
         /\ ew_call'.rest = <<>>
         /\ ew'.written = ew.written
         /\ ew'.vector_size = ew.vector_size
         /\ EdgesWritten(ew') = EdgesWritten(ew)
         /\ ew'.disable_output]_vars
  /\ [][(prog = "writer" /\ ew_pc = "open" /\ ew.disable_output /\ ew_pc' = "closed") =>
         /\ ew'.vector_size = ew.vector_size
         /\ Len(ew_file') = ew.vector_size
         /\ EdgesWritten(ew') = EdgesWritten(ew)]_vars

\* A writer sized for three elements was disabled, handed a stream of edges
\* and destroyed: the file has three elements and no edge was counted.
C39_Witness ==
  /\ prog = "writer"
  /\ ew_pc = "closed"
  /\ ew.disable_output
  /\ ew_call.op = "writeEdges"
  /\ ew.written = <<>>
  /\ EdgesWritten(ew) = 0
  /\ Len(ew_file) = 3

-----------------------------------------------------------------------------
(* Properties of the EdgeWriterPool (SpecPool) *)

\* The sum of edgesWritten() over the writers 1..n of the pool.
RECURSIVE SumWritten(_)
SumWritten(n) == IF n = 0 THEN 0 ELSE ewpool[n].edges_written + SumWritten(n - 1)

\* C40: a pool of T writers over P >= 1 prefixes is constructed without a
\* failed assertion and has T writers, writer i on the path
\* prefix[i mod P] + "graph" + i + ".bin", so that no two writers have the
\* same path; the edges of worker i go to writer i and to no other; and
\* totalEdgesWritten() is the sum of edgesWritten() over the T writers.
C40_PoolPaths ==
  /\ []((prog = "pool" /\ Len(cfg.base_path) >= 1) =>
          /\ pc # "abort"
          /\ pc = "open" =>
               /\ Len(ewpool) = cfg.number_of_writers
               /\ \A i \in 0..(cfg.number_of_writers - 1) :
                    ewpool[i + 1].path
                      = cfg.base_path[(i % Len(cfg.base_path)) + 1] \o "graph" \o ToString(i) \o ".bin"
               /\ \A i, j \in 1..cfg.number_of_writers :
                    i # j => ewpool[i].path # ewpool[j].path)
  /\ [][(prog = "pool" /\ pc = "open" /\ ewpool' # ewpool) =>
         /\ batch'.worker \in 0..(cfg.number_of_writers - 1)
         /\ \A i \in 0..(cfg.number_of_writers - 1) :
              ewpool'[i + 1] =
                (IF i = batch'.worker
                   THEN [ewpool[i + 1] EXCEPT !.edges_written = @ + batch'.edges]
                   ELSE ewpool[i + 1])]_vars
  /\ [][(prog = "pool" /\ pc = "open" /\ edges_written' # edges_written) =>
         edges_written' = SumWritten(cfg.number_of_writers)]_vars

\* Three writers over two prefixes, the third on the first prefix again; two
\* workers have written and totalEdgesWritten() was called after the last.
C40_Witness ==
  /\ prog = "pool"
  /\ pc = "open"
  /\ cfg.number_of_writers = 3
  /\ Len(cfg.base_path) = 2
  /\ cfg.base_path[1] # cfg.base_path[2]
  /\ batch # NoMain
  /\ batch.worker = 2
  /\ ewpool[3].edges_written = 2
  /\ ewpool[1].edges_written = 1
  /\ edges_written = 3

-----------------------------------------------------------------------------
(* Properties of ModelBBCR (SpecBBCR) *)

\* 2 * first_edge_id, the first slot of the generator.
BBCRFirstSlot == 2 * ICNumberOfEdges(BBCRSeed(cfg.number_of_seed_vertices))

\* The tokens pushed so far define each of the slots first..last-1 once.
DefinesOnce(ts, first, last) ==
  \A k \in first..(last - 1) :
    Cardinality({i \in 1..Len(ts) : TargetOf(ts[i]) = k}) = 1

\* C21: _populate never fails its assertion; at the start of every step
\* _token_id is even, the sorter holds one token for each slot from
\* 2 * first_edge_id up to _token_id and no other, 2 * number_of_edges when the
\* loop has ended; every step advances _token_id by 2, and _vertex_id by 1
\* when it is an alpha- or a gamma-step and not at all when it is a beta-step.
C21_PopulateSlots ==
  /\ [](prog = "bbcr" =>
         /\ pc # "abort"
         /\ gen.token_id % 2 = 0
         /\ gen.token_id <= gen.max_token_id
         /\ Len(randomTokens) = gen.token_id - BBCRFirstSlot
         /\ DefinesOnce(randomTokens, BBCRFirstSlot, gen.token_id)
         /\ pc # "gen" => Len(randomTokens) = 2 * cfg.number_of_edges)
  /\ [][(prog = "bbcr" /\ pc = "gen" /\ pc' = "gen") =>
         /\ gen'.token_id = gen.token_id + 2
         /\ gen'.mode \in {"alpha", "beta", "gamma"}
         /\ gen'.vertex_id = gen.vertex_id + (IF gen'.mode = "beta" THEN 0 ELSE 1)
         /\ Len(randomTokens') = Len(randomTokens) + 2]_vars

\* The generator ended after a beta-step that followed a step creating a
\* vertex.
C21_Witness ==
  /\ prog = "bbcr"
  /\ pc = "process"
  /\ gen.mode = "beta"
  /\ cfg.number_of_edges = 2
  /\ gen.vertex_id = cfg.number_of_seed_vertices + 1

\* C36: every Query of the in-distribution (the Query for the 'to' slot, the
\* odd slot of the edge being created) asks for an odd slot, every Query of
\* the out-distribution (for the 'from' slot, the even one) asks for an even
\* slot, and the slot asked for lies below t, the first slot of the edge
\* being created.
C36_QueryParity ==
  prog = "bbcr" =>
    \A i \in 1..Len(randomTokens) :
      TokenQuery(randomTokens[i]) =>
        /\ TokenId(randomTokens[i]) % 2 = TokenValue(randomTokens[i]) % 2
        /\ TokenId(randomTokens[i]) < TokenValue(randomTokens[i]) - (TokenValue(randomTokens[i]) % 2)

\* A beta-step has drawn both of its slots by preferential attachment, the
\* in-distribution Query asking for the last slot below t.
C36_Witness ==
  /\ prog = "bbcr"
  /\ gen.mode = "beta"
  /\ \E n \in {Len(randomTokens)} :
       /\ n >= 2
       /\ TokenQuery(randomTokens[n - 1])
       /\ TokenQuery(randomTokens[n])
       /\ TokenValue(randomTokens[n]) = gen.token_id - 1
       /\ TokenId(randomTokens[n]) = gen.token_id - 3

\* C37: after every step of _populate, every vertex id in a Link of the
\* sorter is the id of a seed vertex or of a vertex created so far (the ids
\* below _vertex_id); a beta-step creates no vertex and names none that does
\* not exist yet.
C37_LinksNameCreatedVertices ==
  prog = "bbcr" =>
    \A i \in 1..Len(randomTokens) :
      ~TokenQuery(randomTokens[i]) => TokenValue(randomTokens[i]) < gen.vertex_id

-----------------------------------------------------------------------------
(* Determinism of the sequential engine (SpecDet) *)

Range(seq) == {seq[i] : i \in 1..Len(seq)}

\* The streams a run merges, from its parameters and its draws alone.
RunStreams ==
  IF prog = "ba"
    THEN <<RVItems(BARegular(cfg.number_of_vertices, cfg.edges_per_vertex)),
           SortTokens(randomTokens),
           ICItems(BASeed(cfg.edges_per_vertex))>>
    ELSE <<SortTokens(randomTokens), ICItems(BBCRSeed(cfg.number_of_seed_vertices))>>

RunTokens(streams) == UNION {Range(streams[i]) : i \in 1..Len(streams)}

\* The tokens of the run in ascending order.
RunOrder(streams) == SortTokens(Flatten(streams))

\* The tokens a merger still holds, in the order it hands them out.
RECURSIVE MergerRest(_)
MergerRest(m) ==
  IF MergerEmpty(m) THEN <<>> ELSE <<MergerPeek(m)>> \o MergerRest(MergerInc(m))

IsSuffix(a, b) == Len(a) <= Len(b) /\ a = SubSeq(b, Len(b) - Len(a) + 1, Len(b))

\* The file of the run, from the nodes of its slots and the filter flags.
RunFile(nodes, f) ==
  IF f.self_loops \/ f.multi_edges
    THEN Flatten(FilterExpected(SortEdges(EdgePairs(nodes)), f.self_loops, f.multi_edges))
    ELSE nodes

\* C18: in a run of main_ba or main_bbcr the tokens still to be read from the
\* merger, the values emitted so far and the file written are given by the
\* parameters, the draws and the number of steps taken: the tokens are read
\* in ascending order, the values emitted are the nodes of the first slots,
\* and the file is the node sequence, or its sorted and filtered edges. Two
\* runs with the same parameters and draws therefore read the same tokens in
\* the same order and write the same file.
C18_Deterministic ==
  (prog \in {"ba", "bbcr"} /\ pc \in {"process", "done"}) =>
    \A streams \in {RunStreams} :
    \A tokens \in {RunTokens(streams)} :
    \A nodes \in {[k \in 1..Cardinality(tokens) |-> NodeOf(tokens, k - 1)]} :
      /\ tfp_tokens = tokens
      /\ IsSuffix(MergerRest(tfp_stream), RunOrder(streams))
      /\ IsPrefix(out, nodes)
      /\ pc = "done" => file = RunFile(nodes, filter)

\* main_ba finished with -m after two draws of which the later one asks for
\* the earlier slot.
C18_Witness ==
  /\ prog = "ba"
  /\ pc = "done"
  /\ filter.multi_edges
  /\ Len(randomTokens) = 2
  /\ TokenId(randomTokens[2]) < TokenId(randomTokens[1])
  /\ file # <<>>

-----------------------------------------------------------------------------
(* Properties of the command line (SpecArgs) *)

\* The configurations the generators are to refuse.
InvalidConfiguration(a) ==
  IF a.program \in {"ba", "pba"}
    THEN a.verts = 0 \/ a.epv = 0
    ELSE \/ a.alpha < 0 \/ a.beta < 0 \/ a.gamma < 0
         \/ a.alpha + a.beta + a.gamma <= 0
         \/ a.degree_offset_in < 0 \/ a.degree_offset_out < 0
         \/ a.edges = 0
         \/ a.seed_verts < 2

\* C17: main_ba and main_pba with no-vertices = 0 or edges-per-vert = 0, and
\* main_bbcr with a negative alpha, beta or gamma, with alpha + beta + gamma
\* <= 0, with a negative d-in or d-out, with no-edges = 0 or with fewer than
\* two seed vertices, return the error once the command line is parsed, and
\* none of the objects of main has been constructed.
C17_InvalidRejected ==
  (prog = "args" /\ av_pc # "parse" /\ InvalidConfiguration(av)) =>
    (av_pc = "error" /\ av_created = {})

\* main_bbcr refused a command line whose only fault is -n 1.
C17_Witness ==
  /\ prog = "args"
  /\ av_pc = "error"
  /\ av.program = "bbcr"
  /\ av.n_given
  /\ av.seed_verts = 1
  /\ av.edges = 1
  /\ ~RejectsWeights(av.alpha, av.beta, av.gamma)
  /\ ~RejectsOffsets(av.degree_offset_in, av.degree_offset_out)

-----------------------------------------------------------------------------
(* Properties of the token streams (SpecStream) *)

IsLink(t, idx, value) == ~TokenQuery(t) /\ TokenId(t) = idx /\ TokenValue(t) = value

\* C19: InitialCircle(k, first) with k >= 2 hands out Links only, the i-th
\* with idx i (from 0), slot 2e holding first + e and slot 2e+1 holding
\* first + ((e+1) mod k); it is empty exactly when 2k tokens were read, and
\* maxVertexId() is first + k - 1 and numberOfEdges() is k throughout.
C19_InitialCircle ==
  (prog = "stream" /\ st_pc \in {"run", "done"} /\ st_args.kind = "circle"
     /\ st_args.number_of_vertices >= 2) =>
    LET k == st_args.number_of_vertices
        first == st_args.first_id
    IN  /\ Len(st_out) <= 2 * k
        /\ \A e \in 0..(k - 1) :
             /\ 2 * e + 1 <= Len(st_out) => IsLink(st_out[2 * e + 1], 2 * e, first + e)
             /\ 2 * e + 2 <= Len(st_out) =>
                  IsLink(st_out[2 * e + 2], 2 * e + 1, first + ((e + 1) % k))
        /\ ICEmpty(st) <=> Len(st_out) = 2 * k
        /\ st_pc = "done" => Len(st_out) = 2 * k
        /\ ICMaxVertexId(st) = first + k - 1
        /\ ICNumberOfEdges(st) = k

\* The circle of three vertices from vertex 1 was read to its end.
C19_Witness ==
  /\ prog = "stream"
  /\ st_pc = "done"
  /\ st_args.kind = "circle"
  /\ st_args.number_of_vertices = 3
  /\ st_args.first_id = 1
  /\ Len(st_out) = 6
  /\ TokenValue(st_out[6]) = 1

\* C20: RegularVertexTokenStream(v0, s0, n, m) with m >= 1 hands out Links
\* only, the (i*m + j)-th being Link(s0 + 2*(i*m + j), v0 + i); it is empty
\* exactly when n*m tokens were read, so at once when n = 0.
C20_RegularVertexTokenStream ==
  (prog = "stream" /\ st_pc \in {"run", "done"} /\ st_args.kind = "regular"
     /\ st_args.edges_per_vertex >= 1) =>
    LET n == st_args.number_of_vertices
        m == st_args.edges_per_vertex
    IN  /\ Len(st_out) <= n * m
        /\ \A i \in 0..(n - 1) : \A j \in 0..(m - 1) :
             i * m + j + 1 <= Len(st_out) =>
               IsLink(st_out[i * m + j + 1],
                      st_args.first_edge_list_idx + 2 * (i * m + j),
                      st_args.first_vertex + i)
        /\ RVEmpty(st) <=> Len(st_out) = n * m
        /\ st_pc = "done" => Len(st_out) = n * m

\* A stream of two vertices with two edges each was read to its end.
C20_Witness ==
  /\ prog = "stream"
  /\ st_pc = "done"
  /\ st_args.kind = "regular"
  /\ st_args.number_of_vertices = 2
  /\ st_args.edges_per_vertex = 2
  /\ st_args.first_edge_list_idx = 2
  /\ Len(st_out) = 4

-----------------------------------------------------------------------------
(* Properties of ReservoirSampling (SpecReservoir) *)

Distinct(q) == \A i, j \in 1..Len(q) : q[i] = q[j] => i = j

\* C22: a reservoir of capacity k is a fixed-capacity bag: after any sequence
\* of pushes it holds at most k items, and after n >= k pushes of pairwise
\* distinct items it holds exactly k items, each of them one of the pushed
\* items and none of them twice.
C22_FixedCapacityBag ==
  (prog = "reservoir" /\ rs_pc = "run" /\ rs_size > 0) =>
    /\ Len(rs.reservoir) <= rs_size
    /\ (Len(rs_pushed) >= rs_size /\ Distinct(rs_pushed)) =>
         /\ Len(rs.reservoir) = rs_size
         /\ \A i \in 1..Len(rs.reservoir) : rs.reservoir[i] \in Range(rs_pushed)
         /\ Distinct(rs.reservoir)

=============================================================================
